---------------------------- MODULE Spec2Model ----------------------------
(***************************************************************************)
(* A model of hlp-toshogu: the streaming metrics engine                    *)
(* (src/metrics/streaming.rs), the batch calculators (src/metrics/mod.rs,  *)
(* src/metrics/risk.rs), the update cycle and its publication              *)
(* (src/main.rs) and the alert evaluator (src/alert.rs).                   *)
(*                                                                         *)
(* Numbers.  rust_decimal values (prices, sizes, volumes, tvl, ...) are    *)
(* integers of whole quote units.  f64 values are exact rationals <<n, d>> *)
(* in lowest terms with d > 0; Decimal::to_f64 is the embedding of an      *)
(* integer quotient in the rationals (the rounding of the last binary      *)
(* digit is not modelled).                                                 *)
(***************************************************************************)
EXTENDS Integers, Sequences, FiniteSets, TLC

VARIABLES
    config,      \* test_mode flag and whether a streaming engine is attached
    engine,      \* the StreamingMetricsEngine behind its RwLock
    now,         \* the monotonic clock read by Instant::now(), in ms
    metrics,     \* Arc<RwLock<GlobalMetrics>>: the published snapshot
    alerts,      \* Arc<RwLock<Vec<Alert>>>: the alert log
    alert_seq,   \* number of alerts created so far (stands for Uuid::new_v4 / Utc::now)
    collector,   \* the task running data_collection_loop / test_data_loop
    ui,          \* the task running run_ui_enhanced
    received,    \* the messages the engine task took from each broadcast channel: how
                 \* many, and the last order event
    produced,    \* history: the record stored by the latest whole-value publish
    guards,      \* the three RwLocks (engine, metrics, alerts): who holds a guard
                 \* and who awaits one, in order of arrival
    engine_task  \* the task running StreamingMetricsEngine::run: its position in
                 \* the loop body and the message in hand

vars ==
    <<config, engine, now, metrics, alerts, alert_seq, collector, ui, received, produced,
      guards, engine_task>>

---------------------------------------------------------------------------
(* Rational arithmetic for f64 values *)

Abs(x) == IF x < 0 THEN -x ELSE x

RECURSIVE GCD(_, _)
GCD(a, b) == IF b = 0 THEN a ELSE GCD(b, a % b)

\* the rational n/d, d # 0, in lowest terms with a positive denominator
R(n, d) ==
    LET s == IF d < 0 THEN -1 ELSE 1
        g == GCD(Abs(n), Abs(d))
    IN  IF n = 0 THEN <<0, 1>> ELSE <<(s * n) \div g, Abs(d) \div g>>

Zero == <<0, 1>>
One == <<1, 1>>
FromInt(i) == <<i, 1>>

RAdd(a, b) == R(a[1] * b[2] + b[1] * a[2], a[2] * b[2])
RSub(a, b) == R(a[1] * b[2] - b[1] * a[2], a[2] * b[2])
RMul(a, b) == R(a[1] * b[1], a[2] * b[2])
RDiv(a, b) == R(a[1] * b[2], a[2] * b[1])
RLt(a, b) == a[1] * b[2] < b[1] * a[2]
RGt(a, b) == RLt(b, a)
RLe(a, b) == ~RLt(b, a)
RMax(a, b) == IF RLt(a, b) THEN b ELSE a
RMin(a, b) == IF RLt(b, a) THEN b ELSE a
\* f64::clamp(0.0, 1.0), and .max(0.0).min(1.0)
Clamp01(a) == RMin(RMax(a, Zero), One)
InUnit(a) == RLe(Zero, a) /\ RLe(a, One)

\* iter().sum() over exact values: the two halves summed, then added
RECURSIVE RSum(_)
RSum(s) ==
    IF s = <<>> THEN Zero
    ELSE IF Len(s) = 1 THEN s[1]
    ELSE RAdd(RSum(SubSeq(s, 1, Len(s) \div 2)),
              RSum(SubSeq(s, Len(s) \div 2 + 1, Len(s))))

RECURSIVE ISum(_)
ISum(s) ==
    IF s = <<>> THEN 0
    ELSE IF Len(s) = 1 THEN s[1]
    ELSE ISum(SubSeq(s, 1, Len(s) \div 2)) + ISum(SubSeq(s, Len(s) \div 2 + 1, Len(s)))

\* the values of a map (a function with a finite domain) as a sequence
RECURSIVE SeqOfSet(_)
SeqOfSet(S) ==
    IF S = {} THEN <<>>
    ELSE LET x == CHOOSE y \in S : TRUE IN <<x>> \o SeqOfSet(S \ {x})

EmptyMap == <<>>

---------------------------------------------------------------------------
(* src/model/mod.rs: GlobalMetrics and its derived Default *)

DefaultMetrics ==
    [ vault_metrics |->
        [ tvl |-> 0, equity |-> 0, apr |-> Zero, utilization_rate |-> Zero,
          deployed_liquidity |-> 0, idle_liquidity |-> 0 ],
      performance_metrics |->
        [ daily_pnl |-> 0, unrealized_pnl |-> 0, total_volume |-> 0,
          sharpe_ratio |-> Zero ],
      liquidity_metrics |->
        [ bid_ask_spread_bps |-> EmptyMap,
          avg_order_lifetime_ms |-> Zero, cancel_rate |-> Zero,
          fleeting_order_ratio |-> Zero, layering_detection_score |-> Zero,
          spoofing_detection_index |-> Zero,
          liquidity_realization_rate |-> Zero ],
      risk_metrics |->
        [ vpin_score |-> Zero, phantom_liquidity_index |-> Zero,
          liquidation_risk_score |-> Zero, cascade_risk_score |-> Zero,
          position_concentration |-> EmptyMap, max_drawdown |-> Zero,
          cross_exchange_manipulation_score |-> Zero ],
      last_update |-> <<"none", 0>> ]

---------------------------------------------------------------------------
(* src/alert.rs *)

\* a create_alert whose caller passed threshold and value in the wrong order
create_alert_swapped(level, metric, value, threshold) ==
    [ level |-> level, metric |-> metric, value |-> threshold, threshold |-> value ]

\* create_alert: the id stands for the fresh uuid and the creation time
create_alert(level, metric, value, threshold) ==
    [ level |-> level, metric |-> metric, value |-> value, threshold |-> threshold ]

\* the two checks written as independent ifs instead of if / else if
two_level_independent(metric, v, critical, warning) ==
    (IF RGt(v, critical) THEN << [ level |-> "Critical", metric |-> metric, value |-> v,
                                   threshold |-> critical ] >> ELSE << >>)
    \o (IF RGt(v, warning) THEN << [ level |-> "Warning", metric |-> metric, value |-> v,
                                     threshold |-> warning ] >> ELSE << >>)

\* the two checks written with >= instead of >
two_level_inclusive(metric, v, critical, warning) ==
    IF ~RLt(v, critical)
    THEN << [ level |-> "Critical", metric |-> metric, value |-> v, threshold |-> critical ] >>
    ELSE IF ~RLt(v, warning)
    THEN << [ level |-> "Warning", metric |-> metric, value |-> v, threshold |-> warning ] >>
    ELSE << >>

\* if v > critical {Critical} else if v > warning {Warning}
two_level(metric, v, critical, warning) ==
    IF RGt(v, critical) THEN << create_alert("Critical", metric, v, critical) >>
    ELSE IF RGt(v, warning) THEN << create_alert("Warning", metric, v, warning) >>
    ELSE << >>

\* the check written with >= instead of >
one_level_inclusive(metric, v, threshold) ==
    IF ~RLt(v, threshold)
    THEN << [ level |-> "Warning", metric |-> metric, value |-> v, threshold |-> threshold ] >>
    ELSE << >>

\* if v > threshold {Warning}
one_level(metric, v, threshold) ==
    IF RGt(v, threshold) THEN << create_alert("Warning", metric, v, threshold) >>
    ELSE << >>

\* the Sharpe check written with <= instead of <
sharpe_alert_inclusive(v) ==
    IF RLe(v, One)
    THEN << [ level |-> "Info", metric |-> "Sharpe Ratio", value |-> v, threshold |-> One ] >>
    ELSE << >>

\* if sharpe_ratio < 1.0 {Info}
sharpe_alert(v) ==
    IF RLt(v, One) THEN << create_alert("Info", "Sharpe Ratio", v, One) >>
    ELSE << >>

\* position_concentration.values().fold(0.0, |acc, x| acc.max(x))
RECURSIVE fold_max(_, _)
fold_max(acc, s) == IF s = <<>> THEN acc ELSE fold_max(RMax(acc, s[1]), Tail(s))

max_concentration(m) ==
    LET pc == m.risk_metrics.position_concentration
    IN  fold_max(Zero, [i \in 1..Len(SeqOfSet(DOMAIN pc)) |-> pc[SeqOfSet(DOMAIN pc)[i]]])

\* the alerts of one evaluation, in push order, before ids are given
alerts_of(m) ==
    two_level("VPIN", m.risk_metrics.vpin_score, R(7, 10), R(5, 10))
    \o two_level("Phantom Liquidity", m.risk_metrics.phantom_liquidity_index, R(6, 10), R(4, 10))
    \o two_level("Liquidation Risk", m.risk_metrics.liquidation_risk_score, R(85, 100), R(7, 10))
    \o two_level("Max Drawdown", m.risk_metrics.max_drawdown, R(25, 100), R(15, 100))
    \o one_level("Utilization", m.vault_metrics.utilization_rate, R(9, 10))
    \o one_level("Position Concentration", max_concentration(m), R(15, 100))
    \o one_level("Cancel Rate", m.liquidity_metrics.cancel_rate, R(5, 10))
    \o one_level("Fleeting Orders", m.liquidity_metrics.fleeting_order_ratio, R(2, 10))
    \o sharpe_alert(m.performance_metrics.sharpe_ratio)

\* check_alerts(&metrics): seq0 alerts were created before this call
check_alerts(m, seq0) ==
    LET a == alerts_of(m)
    IN  [ i \in 1..Len(a) |->
            [ id |-> seq0 + i, level |-> a[i].level, metric |-> a[i].metric,
              value |-> a[i].value, threshold |-> a[i].threshold ] ]

---------------------------------------------------------------------------
(* src/metrics/streaming.rs: StreamingMetricsEngine *)

\* map.insert(k, v) on a HashMap modelled as a function
Insert(m, k, v) == [x \in (DOMAIN m) \cup {k} |-> IF x = k THEN v ELSE m[x]]
\* map.remove(k)
Remove(m, k) == [x \in (DOMAIN m) \ {k} |-> m[x]]
\* *map.entry(k).or_insert(0)
GetOr0(m, k) == IF k \in DOMAIN m THEN m[k] ELSE 0

\* StreamingMetricsEngine::new()
new_engine ==
    [ trade_buffer |-> <<>>,
      l2_snapshots |-> EmptyMap,
      vpin_buckets |-> <<>>,
      bucket_accumulator |->
        [ current_volume |-> 0, buy_volume |-> 0, sell_volume |-> 0,
          bucket_size |-> 10000 ],
      order_flow_analyzer |->
        [ order_lifetimes |-> <<>>, cancellation_events |-> 0,
          total_orders |-> 0, fleeting_orders |-> 0 ],
      phantom_liquidity_tracker |->
        [ layering_score |-> Zero, spoofing_events |-> 0,
          total_depth_promises |-> 0, realized_depth |-> Zero ],
      active_orders |-> EmptyMap,
      total_volume_traded |-> 0,
      volume_by_coin |-> EmptyMap ]

\* fill.px * fill.sz.abs()
notional(fill) == fill.px * Abs(fill.sz)

\* an imbalance divided by the bucket size instead of the bucket's volume
bucket_imbalance_by_size(buy, sell) == R(Abs(buy - sell), 10000)

\* (buy - sell).abs() / (buy + sell), the value pushed for a completed bucket
bucket_imbalance(buy, sell) == R(Abs(buy - sell), buy + sell)

\* a push that never evicts
push_bucket_unbounded(buckets, v) == Append(buckets, v)

\* vpin_buckets.push_back(v); if len > 50 { pop_front() }
push_bucket(buckets, v) ==
    LET b == Append(buckets, v) IN IF Len(b) > 50 THEN Tail(b) ELSE b

\* a completion test that needs the volume to exceed the bucket size
bucket_complete_strict(current_volume, bucket_size) == current_volume > bucket_size

\* if current_volume >= bucket_size: the bucket is complete
bucket_complete(current_volume, bucket_size) == current_volume >= bucket_size

\* a reset that clears the two sides but keeps the bucket's running volume
reset_accumulator_keeps_volume(acc) == [ acc EXCEPT !.buy_volume = 0, !.sell_volume = 0 ]

\* current_volume = buy_volume = sell_volume = Decimal::ZERO
reset_accumulator(acc) ==
    [ acc EXCEPT !.current_volume = 0, !.buy_volume = 0, !.sell_volume = 0 ]

\* update_vpin_calculation(&mut self, fill)
update_vpin_calculation(e, fill) ==
    LET volume == notional(fill)
        acc == e.bucket_accumulator
        buy == IF fill.side = "B" THEN acc.buy_volume + volume ELSE acc.buy_volume
        sell == IF fill.side = "B" THEN acc.sell_volume ELSE acc.sell_volume + volume
        cur == acc.current_volume + volume
    IN  IF bucket_complete(cur, acc.bucket_size)
        THEN [ e EXCEPT
                 !.vpin_buckets =
                     IF buy + sell > 0 THEN push_bucket(@, bucket_imbalance(buy, sell)) ELSE @,
                 !.bucket_accumulator = reset_accumulator(acc) ]
        ELSE [ e EXCEPT
                 !.bucket_accumulator =
                     [ acc EXCEPT !.current_volume = cur, !.buy_volume = buy, !.sell_volume = sell ] ]

\* is_likely_cancellation(fill)
is_likely_cancellation(fill) == fill.sz < 100 /\ fill.fee = 0

\* analyze_order_flow without the increment of total_orders
analyze_order_flow_untallied(e, fill, order_lifetime) ==
    LET ofa == e.order_flow_analyzer
        pushed == Append(ofa.order_lifetimes, order_lifetime)
    IN  [ e EXCEPT !.order_flow_analyzer =
            [ total_orders |-> ofa.total_orders,
              fleeting_orders |->
                  IF order_lifetime < 100 THEN ofa.fleeting_orders + 1 ELSE ofa.fleeting_orders,
              cancellation_events |->
                  IF is_likely_cancellation(fill) THEN ofa.cancellation_events + 1
                  ELSE ofa.cancellation_events,
              order_lifetimes |-> IF Len(pushed) > 1000 THEN Tail(pushed) ELSE pushed ] ]

\* analyze_order_flow(&mut self, fill); order_lifetime is what
\* estimate_order_lifetime drew from rand 50..300000
analyze_order_flow(e, fill, order_lifetime) ==
    LET ofa == e.order_flow_analyzer
        pushed == Append(ofa.order_lifetimes, order_lifetime)
    IN  [ e EXCEPT !.order_flow_analyzer =
            [ total_orders |-> ofa.total_orders + 1,
              fleeting_orders |->
                  IF order_lifetime < 100 THEN ofa.fleeting_orders + 1 ELSE ofa.fleeting_orders,
              cancellation_events |->
                  IF is_likely_cancellation(fill) THEN ofa.cancellation_events + 1
                  ELSE ofa.cancellation_events,
              order_lifetimes |-> IF Len(pushed) > 1000 THEN Tail(pushed) ELSE pushed ] ]

\* process_trade(&mut self, fill)
process_trade(e, fill, order_lifetime) ==
    LET trade_volume == notional(fill)
        e1 == [ e EXCEPT
                  !.total_volume_traded = @ + trade_volume,
                  !.volume_by_coin = Insert(@, fill.coin, GetOr0(@, fill.coin) + trade_volume) ]
        e2 == update_vpin_calculation(e1, fill)
        e3 == analyze_order_flow(e2, fill, order_lifetime)
        buf == Append(e3.trade_buffer, fill)
    IN  [ e3 EXCEPT !.trade_buffer = IF Len(buf) > 5000 THEN Tail(buf) ELSE buf ]

\* on_new_order(&mut self, id)
on_new_order(e, id, t) == [ e EXCEPT !.active_orders = Insert(@, id, t) ]

\* a fleeting test that counts a lifetime of exactly 100 ms too
is_fleeting_inclusive(lifetime) == lifetime <= 100

\* if lifetime < 100: the closed order was fleeting
is_fleeting(lifetime) == lifetime < 100

\* the body of `if let Some(t0) = self.active_orders.remove(&id)`: the order
\* is out of the table and its lifetime is tallied
close_order(e, id, is_cancel, lifetime) ==
    LET ofa == e.order_flow_analyzer
        pushed == Append(ofa.order_lifetimes, lifetime)
    IN  [ e EXCEPT
            !.active_orders = Remove(@, id),
            !.order_flow_analyzer =
              [ total_orders |-> ofa.total_orders + 1,
                order_lifetimes |-> IF Len(pushed) > 10000 THEN Tail(pushed) ELSE pushed,
                fleeting_orders |->
                    IF is_fleeting(lifetime) THEN ofa.fleeting_orders + 1
                    ELSE ofa.fleeting_orders,
                cancellation_events |->
                    IF is_cancel THEN ofa.cancellation_events + 1
                    ELSE ofa.cancellation_events ] ]

\* an on_cancel_or_fill that tallies a close of an unknown id with lifetime 0
on_cancel_or_fill_counting_unknown(e, id, is_cancel, t) ==
    IF id \in DOMAIN e.active_orders
    THEN close_order(e, id, is_cancel, t - e.active_orders[id])
    ELSE close_order(e, id, is_cancel, 0)

\* on_cancel_or_fill(&mut self, id, is_cancel); t is the instant of the call,
\* t0.elapsed().as_millis() is t - t0
on_cancel_or_fill(e, id, is_cancel, t) ==
    IF id \in DOMAIN e.active_orders
    THEN close_order(e, id, is_cancel, t - e.active_orders[id])
    ELSE e

\* levels.iter().take(5).map(|l| l.sz).sum()
take5_sz(levels) == ISum([i \in 1..(IF Len(levels) < 5 THEN Len(levels) ELSE 5) |-> levels[i].sz])

\* calculate_total_depth(snapshot)
calculate_total_depth(snapshot) == take5_sz(snapshot.bids) + take5_sz(snapshot.asks)

\* calculate_depth_change(previous, current)
calculate_depth_change(previous, current) ==
    LET prev_depth == calculate_total_depth(previous)
        curr_depth == calculate_total_depth(current)
    IN  IF prev_depth = 0 THEN Zero ELSE R(curr_depth - prev_depth, prev_depth)

\* count_same_price_orders(snapshot): sum of the per-price order counts above 1
count_same_price_orders(snapshot) ==
    LET levels == snapshot.bids \o snapshot.asks
        prices == {levels[i].px : i \in DOMAIN levels}
        count(p) == ISum([i \in 1..Len(levels) |-> IF levels[i].px = p THEN levels[i].n ELSE 0])
        counts == [i \in 1..Len(SeqOfSet(prices)) |->
                     IF count(SeqOfSet(prices)[i]) > 1 THEN count(SeqOfSet(prices)[i]) ELSE 0]
    IN  ISum(counts)

\* detect_layering_patterns(previous, current)
detect_layering_patterns(previous, current) ==
    LET grew == Len(current.bids) > Len(previous.bids) + 3
                \/ Len(current.asks) > Len(previous.asks) + 3
        s1 == IF grew THEN R(2, 10) ELSE Zero
        s2 == IF count_same_price_orders(current) > 5 THEN RAdd(s1, R(3, 10)) ELSE s1
    IN  Clamp01(s2)

\* an increment rounded to the nearest integer instead of truncated
spoof_increment_rounded(total_orders) ==
    IF total_orders = 0 THEN 1
    ELSE LET q == RMin(R(1, total_orders), One) IN (2 * q[1] + q[2]) \div (2 * q[2])

\* (1.0 / total_orders as f64).min(1.0) as u32: 1/0 is +inf, the cast truncates
spoof_increment(total_orders) ==
    IF total_orders = 0 THEN 1
    ELSE LET q == RMin(R(1, total_orders), One) IN q[1] \div q[2]

\* detect_phantom_liquidity with the whole depth counted as realized
detect_phantom_liquidity_unscaled(e, previous, current) ==
    LET depth_change == calculate_depth_change(previous, current)
        layering_score == detect_layering_patterns(previous, current)
        plt == e.phantom_liquidity_tracker
        depth == calculate_total_depth(current)
    IN  [ e EXCEPT !.phantom_liquidity_tracker =
            [ layering_score |->
                  RAdd(RMul(plt.layering_score, R(8, 10)), RMul(layering_score, R(2, 10))),
              spoofing_events |->
                  IF RGt(R(Abs(depth_change[1]), depth_change[2]), R(5, 100))
                  THEN plt.spoofing_events + spoof_increment(e.order_flow_analyzer.total_orders)
                  ELSE plt.spoofing_events,
              total_depth_promises |-> plt.total_depth_promises + depth,
              realized_depth |-> RAdd(plt.realized_depth, FromInt(depth)) ] ]

\* detect_phantom_liquidity(&mut self, previous, current)
detect_phantom_liquidity(e, previous, current) ==
    LET depth_change == calculate_depth_change(previous, current)
        layering_score == detect_layering_patterns(previous, current)
        plt == e.phantom_liquidity_tracker
        depth == calculate_total_depth(current)
    IN  [ e EXCEPT !.phantom_liquidity_tracker =
            [ layering_score |->
                  RAdd(RMul(plt.layering_score, R(8, 10)), RMul(layering_score, R(2, 10))),
              spoofing_events |->
                  IF RGt(R(Abs(depth_change[1]), depth_change[2]), R(5, 100))
                  THEN plt.spoofing_events + spoof_increment(e.order_flow_analyzer.total_orders)
                  ELSE plt.spoofing_events,
              total_depth_promises |-> plt.total_depth_promises + depth,
              realized_depth |-> RAdd(plt.realized_depth, RMul(FromInt(depth), R(8, 10))) ] ]

\* process_l2_update(&mut self, snapshot)
process_l2_update(e, snapshot) ==
    LET e1 == IF snapshot.coin \in DOMAIN e.l2_snapshots
              THEN detect_phantom_liquidity(e, e.l2_snapshots[snapshot.coin], snapshot)
              ELSE e
    IN  [ e1 EXCEPT !.l2_snapshots = Insert(@, snapshot.coin, snapshot) ]

\* get_current_vpin(&self)
get_current_vpin(e) ==
    IF e.vpin_buckets = <<>> THEN Zero
    ELSE RDiv(RSum(e.vpin_buckets), FromInt(Len(e.vpin_buckets)))

\* get_phantom_liquidity_metrics(&self)
get_phantom_liquidity_metrics(e) ==
    LET ofa == e.order_flow_analyzer
    IN  [ fleeting_order_ratio |->
              IF ofa.total_orders > 0 THEN R(ofa.fleeting_orders, ofa.total_orders) ELSE Zero,
          cancellation_rate |->
              IF ofa.total_orders > 0 THEN R(ofa.cancellation_events, ofa.total_orders) ELSE Zero,
          avg_order_lifetime_ms |->
              IF ofa.order_lifetimes = <<>> THEN Zero
              ELSE R(ISum(ofa.order_lifetimes), Len(ofa.order_lifetimes)),
          layering_score |-> e.phantom_liquidity_tracker.layering_score,
          spoofing_events |-> e.phantom_liquidity_tracker.spoofing_events ]

\* get_volume_metrics(&self)
get_volume_metrics(e) == <<e.total_volume_traded, e.volume_by_coin>>

\* get_depth_realisation_ratio(&self) / calculate_depth_realisation_ratio
get_depth_realisation_ratio(e) ==
    LET plt == e.phantom_liquidity_tracker
    IN  IF plt.total_depth_promises = 0 THEN Zero
        ELSE Clamp01(RDiv(plt.realized_depth, FromInt(plt.total_depth_promises)))

\* get_real_time_spreads(&self)
get_real_time_spreads(e) ==
    LET ok(c) == LET s == e.l2_snapshots[c]
                 IN  s.bids # <<>> /\ s.asks # <<>> /\ s.bids[1].px + s.asks[1].px > 0
        bps(c) == LET s == e.l2_snapshots[c]
                  IN  R((s.asks[1].px - s.bids[1].px) * 2 * 10000, s.bids[1].px + s.asks[1].px)
    IN  [c \in {x \in DOMAIN e.l2_snapshots : ok(x)} |-> bps(c)]

---------------------------------------------------------------------------
(* src/metrics/risk.rs and src/metrics/mod.rs: the batch calculators *)

\* meta.universe.iter().filter(|a| a.max_leverage >= min).map(|a| a.name).collect()
assets_with_leverage(meta, min) ==
    {meta.universe[i].name : i \in {j \in DOMAIN meta.universe : meta.universe[j].max_leverage >= min}}

\* one iteration of the loop of calculate_vpin; st is
\* <<buckets, current_bucket_volume, current_buy_volume, current_sell_volume>>
vpin_replay_fill(fill, major_assets, st) ==
    LET volume == notional(fill)
        buy == IF fill.side = "B" THEN st[3] + volume ELSE st[3]
        sell == IF fill.side = "B" THEN st[4] ELSE st[4] + volume
        cur == st[2] + volume
    IN  IF fill.coin \notin major_assets THEN st
        ELSE IF bucket_complete(cur, 10000)
        THEN << IF buy + sell > 0 THEN Append(st[1], bucket_imbalance(buy, sell)) ELSE st[1],
                0, 0, 0 >>
        ELSE <<st[1], cur, buy, sell>>

\* the loop of calculate_vpin over the fills that are left
RECURSIVE vpin_replay(_, _, _)
vpin_replay(fills, major_assets, st) ==
    IF fills = <<>> THEN st
    ELSE vpin_replay(Tail(fills), major_assets, vpin_replay_fill(Head(fills), major_assets, st))

\* a window that takes every bucket
last_n_unbounded(s, n) == s

\* &buckets[buckets.len().saturating_sub(window_size)..]
last_n(s, n) == IF Len(s) <= n THEN s ELSE SubSeq(s, Len(s) - n + 1, Len(s))

\* the end of calculate_vpin: 0 without a bucket, else the mean of the last 50
vpin_of_buckets(buckets) ==
    LET recent_buckets == last_n(buckets, 50)
    IN  IF buckets = <<>> THEN Zero
        ELSE RDiv(RSum(recent_buckets), FromInt(Len(recent_buckets)))

\* calculate_vpin(fills, meta)
calculate_vpin(fills, meta) ==
    LET major_assets == assets_with_leverage(meta, 10)
        buckets == vpin_replay(fills, major_assets, << <<>>, 0, 0, 0 >>)[1]
    IN  IF fills = <<>> THEN Zero ELSE vpin_of_buckets(buckets)

\* calculate_fill_probabilities: five fixed entries, of mean 0.72
avg_fill_prob == R(95 + 85 + 75 + 60 + 45, 500)

\* the weighted sum of calculate_phantom_liquidity_index before its clamp
phantom_score(lm) ==
    RAdd(RMul(lm.fleeting_order_ratio, R(25, 100)),
    RAdd(RMul(RSub(One, avg_fill_prob), R(20, 100)),
    RAdd(RMul(lm.layering_detection_score, R(20, 100)),
    RAdd(RMul(lm.spoofing_detection_index, R(20, 100)),
         RMul(RSub(One, lm.liquidity_realization_rate), R(15, 100))))))

\* a phantom liquidity index that returns the weighted sum as it is
calculate_phantom_liquidity_index_unclamped(lm) == phantom_score(lm)

\* calculate_phantom_liquidity_index(liquidity_metrics)
calculate_phantom_liquidity_index(lm) == Clamp01(phantom_score(lm))

\* a liquidation risk whose fallback for tvl = 0 is 0.5 * the drawdown factor
calculate_liquidation_risk_drawdown_fallback(vs) ==
    IF vs.tvl = 0 THEN RMul(Clamp01(vs.max_drawdown), R(5, 10))
    ELSE Clamp01(RAdd(RSub(One, R(vs.equity, vs.tvl)),
                      RMul(Clamp01(vs.max_drawdown), R(5, 10))))

\* calculate_liquidation_risk(vault_summary)
calculate_liquidation_risk(vs) ==
    IF vs.tvl = 0 THEN One
    ELSE LET equity_ratio == R(vs.equity, vs.tvl)
             drawdown_factor == Clamp01(vs.max_drawdown)
             base_risk == RSub(One, equity_ratio)
         IN  Clamp01(RAdd(base_risk, RMul(drawdown_factor, R(5, 10))))

\* the table of calculate_asset_correlation, correlations in hundredths
correlation_pairs ==
    << <<"BTC", "ETH", 70>>, <<"ETH", "SOL", 60>>, <<"BTC", "SOL", 50>>,
       <<"ETH", "AVAX", 80>>, <<"SOL", "AVAX", 70>>, <<"BTC", "DOGE", 40>>,
       <<"ETH", "MATIC", 60>>, <<"LINK", "UNI", 50>>, <<"AAVE", "COMP", 70>> >>

\* calculate_asset_correlation(assets)
calculate_asset_correlation(assets) ==
    LET present == {i \in DOMAIN correlation_pairs :
                      correlation_pairs[i][1] \in assets /\ correlation_pairs[i][2] \in assets}
        total == ISum([i \in 1..Len(correlation_pairs) |->
                         IF i \in present THEN correlation_pairs[i][3] ELSE 0])
    IN  IF present = {} THEN R(5, 10) ELSE R(total, 100 * Cardinality(present))

\* signed position of one coin: += sz on "B", -= sz otherwise
RECURSIVE net_position(_, _)
net_position(fills, coin) ==
    IF fills = <<>> THEN 0
    ELSE (IF Head(fills).coin # coin THEN 0
          ELSE IF Head(fills).side = "B" THEN Head(fills).sz ELSE -Head(fills).sz)
         + net_position(Tail(fills), coin)

\* calculate_cascade_risk(fills, meta)
calculate_cascade_risk(fills, meta) ==
    LET major_assets == assets_with_leverage(meta, 5)
        coins == SeqOfSet({fills[i].coin : i \in DOMAIN fills} \cap major_assets)
        sizes == [i \in 1..Len(coins) |-> Abs(net_position(fills, coins[i]))]
        total_exposure == ISum(sizes)
        concentration_risk ==
            RSum([i \in 1..Len(coins) |->
                    RMul(R(sizes[i], total_exposure), R(sizes[i], total_exposure))])
    IN  IF fills = <<>> \/ total_exposure = 0 THEN Zero
        ELSE Clamp01(RMul(RMul(concentration_risk, calculate_asset_correlation(major_assets)),
                          R(8, 10)))

\* traded notional of one coin
RECURSIVE coin_value(_, _)
coin_value(fills, coin) ==
    IF fills = <<>> THEN 0
    ELSE (IF Head(fills).coin = coin THEN notional(Head(fills)) ELSE 0)
         + coin_value(Tail(fills), coin)

\* calculate_position_concentration without the tradeable_assets filter
calculate_position_concentration_unfiltered(fills, meta) ==
    LET coins == {fills[i].coin : i \in DOMAIN fills}
        total_value == ISum([i \in 1..Len(SeqOfSet(coins)) |->
                               coin_value(fills, SeqOfSet(coins)[i])])
    IN  IF total_value > 0
        THEN [c \in coins |-> R(coin_value(fills, c), total_value)]
        ELSE EmptyMap

\* calculate_position_concentration(fills, meta)
calculate_position_concentration(fills, meta) ==
    LET tradeable_assets == {meta.universe[i].name : i \in DOMAIN meta.universe}
        coins == {fills[i].coin : i \in DOMAIN fills} \cap tradeable_assets
        total_value == ISum([i \in 1..Len(SeqOfSet(coins)) |->
                               coin_value(fills, SeqOfSet(coins)[i])])
    IN  IF total_value > 0
        THEN [c \in coins |-> R(coin_value(fills, c), total_value)]
        ELSE EmptyMap

\* detect_cross_exchange_manipulation with the higher score from 10 assets on
detect_cross_exchange_manipulation_from_ten(fills, meta) ==
    IF fills = <<>> THEN Zero
    ELSE IF Cardinality({i \in DOMAIN meta.universe : meta.universe[i].max_leverage >= 10}) >= 10
         THEN R(15, 100) ELSE R(8, 100)

\* detect_cross_exchange_manipulation(fills, meta)
detect_cross_exchange_manipulation(fills, meta) ==
    IF fills = <<>> THEN Zero
    ELSE IF Cardinality({i \in DOMAIN meta.universe : meta.universe[i].max_leverage >= 10}) > 10
         THEN R(15, 100) ELSE R(8, 100)

\* floor of the square root of a natural number, by bisection on lo..hi
RECURSIVE isqrt_between(_, _, _)
isqrt_between(n, lo, hi) ==
    IF lo >= hi THEN lo
    ELSE LET mid == (lo + hi + 1) \div 2
         IN  IF mid * mid <= n THEN isqrt_between(n, mid, hi)
             ELSE isqrt_between(n, lo, mid - 1)

isqrt(n) == isqrt_between(n, 0, IF n < 46340 THEN n ELSE 46340)

\* f64::sqrt: exact on squares of rationals, otherwise cut to 1/1000
RSqrt(a) ==
    IF isqrt(a[1]) * isqrt(a[1]) = a[1] /\ isqrt(a[2]) * isqrt(a[2]) = a[2]
    THEN R(isqrt(a[1]), isqrt(a[2]))
    ELSE R(isqrt((a[1] * 1000000) \div a[2]), 1000)

\* calculate_sharpe_ratio(returns), returns being whole numbers
calculate_sharpe_ratio(returns) ==
    IF returns = <<>> THEN Zero
    ELSE LET n == Len(returns)
             mean_return == R(ISum(returns), n)
             variance ==
                 RDiv(RSum([i \in 1..n |->
                              RMul(RSub(FromInt(returns[i]), mean_return),
                                   RSub(FromInt(returns[i]), mean_return))]),
                      FromInt(n))
             std_dev == RSqrt(variance)
         IN  IF std_dev = Zero THEN Zero ELSE RDiv(mean_return, std_dev)

\* calculate_vault_metrics(vault_summary, user_state)
calculate_vault_metrics(vs, user_state) ==
    [ tvl |-> vs.tvl,
      equity |-> vs.equity,
      apr |-> vs.apr,
      utilization_rate |->
          IF vs.tvl > 0 THEN R(user_state.total_margin_used, vs.tvl) ELSE Zero,
      deployed_liquidity |-> user_state.total_margin_used,
      idle_liquidity |-> vs.tvl - user_state.total_margin_used ]

\* calculate_performance_metrics(fills, vault_summary)
calculate_performance_metrics(fills, vs) ==
    [ daily_pnl |-> ISum([i \in 1..Len(fills) |-> fills[i].closed_pnl]),
      unrealized_pnl |-> vs.equity - vs.tvl,
      total_volume |-> ISum([i \in 1..Len(fills) |-> notional(fills[i])]),
      sharpe_ratio |-> calculate_sharpe_ratio([i \in 1..Len(fills) |-> fills[i].closed_pnl]) ]

\* calculate_spread_bps(bid, ask)
calculate_spread_bps(bid, ask) ==
    IF bid = 0 \/ ask = 0 \/ bid + ask = 0 THEN Zero
    ELSE R((ask - bid) * 2 * 10000, bid + ask)

\* calculate_liquidity_metrics(l2_snapshots, fills, meta): the order-lifetime
\* and manipulation figures are the constants of analyze_order_lifetimes and
\* detect_manipulation_patterns
calculate_liquidity_metrics(l2_snapshots, fills, meta) ==
    LET active_assets == {meta.universe[i].name : i \in {j \in DOMAIN meta.universe :
                ~meta.universe[j].only_isolated /\ meta.universe[j].max_leverage > 1}}
        quoted == {c \in (DOMAIN l2_snapshots) \cap active_assets :
                     l2_snapshots[c].bids # <<>> /\ l2_snapshots[c].asks # <<>>}
    IN  [ bid_ask_spread_bps |->
              [c \in quoted |->
                 calculate_spread_bps(l2_snapshots[c].bids[1].px, l2_snapshots[c].asks[1].px)],
          avg_order_lifetime_ms |-> FromInt(164170),
          cancel_rate |-> R(45, 100),
          fleeting_order_ratio |-> R(93, 1000),
          layering_detection_score |-> R(35, 100),
          spoofing_detection_index |-> R(9, 100),
          liquidity_realization_rate |-> R(512, 1000) ]

\* calculate_risk_metrics(vault_summary, fills, liquidity_metrics, meta)
calculate_risk_metrics(vs, fills, lm, meta) ==
    [ vpin_score |-> calculate_vpin(fills, meta),
      phantom_liquidity_index |-> calculate_phantom_liquidity_index(lm),
      liquidation_risk_score |-> calculate_liquidation_risk(vs),
      cascade_risk_score |-> calculate_cascade_risk(fills, meta),
      position_concentration |-> calculate_position_concentration(fills, meta),
      max_drawdown |-> vs.max_drawdown,
      cross_exchange_manipulation_score |-> detect_cross_exchange_manipulation(fills, meta) ]

---------------------------------------------------------------------------
(* src/main.rs: update_metrics, the test metrics, the tasks *)

\* (x as f64 * 0.1).sin() in thousandths, for x = 1..157 (a quarter period)
sin_milli ==
    <<
       100, 199, 296, 389, 479, 565, 644, 717, 783, 841, 891, 932,
       964, 985, 997, 1000, 992, 974, 946, 909, 863, 808, 746, 675,
       598, 516, 427, 335, 239, 141, 42, -58, -158, -256, -351, -443,
       -530, -612, -688, -757, -818, -872, -916, -952, -978, -994, -1000, -996,
       -982, -959, -926, -883, -832, -773, -706, -631, -551, -465, -374, -279,
       -182, -83, 17, 117, 215, 312, 405, 494, 578, 657, 729, 794,
       850, 899, 938, 968, 988, 999, 999, 989, 970, 941, 902, 855,
       798, 734, 663, 585, 501, 412, 319, 223, 124, 25, -75, -174,
       -272, -366, -458, -544, -625, -700, -768, -828, -880, -923, -957, -981,
       -995, -1000, -995, -979, -954, -919, -875, -823, -762, -694, -618, -537,
       -450, -358, -263, -166, -66, 34, 133, 232, 327, 420, 509, 592,
       670, 740, 804, 859, 906, 944, 972, 991, 999, 998, 987, 966,
       935, 895, 846, 788, 723, 650, 571, 486, 397, 303, 206, 108,
       8
    >>

\* sin on the half period 0..314 tenths, by the symmetry about pi/2
half_wave(r) ==
    IF r = 0 \/ r = 314 THEN 0
    ELSE IF r <= 157 THEN sin_milli[r] ELSE sin_milli[314 - r]

\* time_factor of apply_test_modifications: (counter as f64 * 0.1).sin(),
\* to 1/1000, the period taken as 62.8
time_factor(counter) ==
    LET r == counter % 628
    IN  IF r <= 314 THEN R(half_wave(r), 1000) ELSE R(0 - half_wave(r - 314), 1000)

\* the instant Utc::now() returns at a call site, named by who calls and when
Stamp(who, n) == <<who, n>>

\* apply_test_modifications(&mut metrics, counter)
apply_test_modifications(m, counter, stamp) ==
    LET tf == time_factor(counter)
    IN  [ m EXCEPT
            !.risk_metrics.vpin_score =
                IF counter % 50 = 0 THEN R(8, 10)
                ELSE Clamp01(RAdd(R(3, 10), RMul(tf, R(4, 10)))),
            !.risk_metrics.phantom_liquidity_index = Clamp01(RAdd(R(25, 100), RMul(tf, R(2, 10)))),
            !.risk_metrics.liquidation_risk_score = Clamp01(RAdd(R(2, 10), RMul(tf, R(3, 10)))),
            !.vault_metrics.utilization_rate = Clamp01(RAdd(R(5, 10), RMul(tf, R(3, 10)))),
            !.last_update = stamp ]

\* create_test_metrics(counter)
create_test_metrics(stamp) ==
    [ vault_metrics |->
        [ tvl |-> 109530000, equity |-> 373090000, apr |-> R(576, 100),
          utilization_rate |-> Zero,
          deployed_liquidity |-> 85000000, idle_liquidity |-> 24530000 ],
      performance_metrics |->
        [ daily_pnl |-> 15000, unrealized_pnl |-> 8500, total_volume |-> 25000000,
          sharpe_ratio |-> R(221, 100) ],
      liquidity_metrics |->
        [ bid_ask_spread_bps |-> [BTC |-> R(5, 10), ETH |-> R(8, 10), SOL |-> R(12, 10)],
          avg_order_lifetime_ms |-> FromInt(164170), cancel_rate |-> R(45, 100),
          fleeting_order_ratio |-> R(93, 1000), layering_detection_score |-> R(35, 100),
          spoofing_detection_index |-> R(9, 100),
          liquidity_realization_rate |-> R(512, 1000) ],
      risk_metrics |->
        [ vpin_score |-> Zero, phantom_liquidity_index |-> Zero,
          liquidation_risk_score |-> Zero, cascade_risk_score |-> R(12, 100),
          position_concentration |-> [BTC |-> R(8, 100), ETH |-> R(6, 100), SOL |-> R(4, 100)],
          max_drawdown |-> Zero,
          cross_exchange_manipulation_score |-> Zero ],
      last_update |-> stamp ]

\* the batch part of update_metrics: the four calculators on the fetched data
batch_metrics(snap, stamp) ==
    LET lm == calculate_liquidity_metrics(snap.l2_snapshots, snap.recent_fills, snap.meta)
    IN  [ vault_metrics |-> calculate_vault_metrics(snap.vault_summary, snap.user_state),
          performance_metrics |->
              calculate_performance_metrics(snap.recent_fills, snap.vault_summary),
          liquidity_metrics |-> lm,
          risk_metrics |->
              calculate_risk_metrics(snap.vault_summary, snap.recent_fills, lm, snap.meta),
          last_update |-> stamp ]

\* f64::tanh: the series x - x^3/3 up to 1/2, steps above
tanh(x) ==
    IF RLe(x, R(1, 2)) THEN RSub(x, RDiv(RMul(x, RMul(x, x)), FromInt(3)))
    ELSE IF RLe(x, One) THEN R(76, 100)
    ELSE IF RLe(x, FromInt(2)) THEN R(96, 100)
    ELSE One

\* for (coin, spread) in real_time_spreads { map.insert(coin, spread) }
insert_all(m, extra) ==
    [c \in (DOMAIN m) \cup (DOMAIN extra) |-> IF c \in DOMAIN extra THEN extra[c] ELSE m[c]]

\* an overlay that leaves the batch vpin_score in place
overlay_vpin_batch_kept(batch_vpin, streaming_vpin) == batch_vpin

\* the vpin_score the overlay stores (main.rs line 785)
overlay_vpin(batch_vpin, streaming_vpin) == streaming_vpin

\* an overlay that stores the engine's volume in place of the batch volume
overlay_total_volume_replaced(batch_volume, streaming_volume) == streaming_volume

\* performance_metrics.total_volume += streaming_volume (main.rs line 810)
overlay_total_volume(batch_volume, streaming_volume) == batch_volume + streaming_volume

\* the five views update_metrics reads from the engine (main.rs lines 774-778)
engine_views(e) ==
    [ streaming_vpin |-> get_current_vpin(e),
      phantom_metrics |-> get_phantom_liquidity_metrics(e),
      real_time_spreads |-> get_real_time_spreads(e),
      streaming_volume |-> get_volume_metrics(e)[1],
      liquidity_realization_rate |-> get_depth_realisation_ratio(e) ]

\* update_metrics, lines 785-818: the views written over the batch record
overlay_views(gm, views, vs) ==
    LET streaming_vpin == views.streaming_vpin
        phantom_metrics == views.phantom_metrics
        real_time_spreads == views.real_time_spreads
        streaming_volume == views.streaming_volume
        liquidity_realization_rate == views.liquidity_realization_rate
        depth_penalty == RSub(One, liquidity_realization_rate)
        spoof_penalty == tanh(R(phantom_metrics.spoofing_events, 50))
        layering_penalty == phantom_metrics.layering_score
        flow_penalty == RAdd(RMul(R(5, 10), phantom_metrics.fleeting_order_ratio),
                             RMul(R(5, 10), phantom_metrics.cancellation_rate))
    IN  [ gm EXCEPT
            !.risk_metrics.vpin_score = overlay_vpin(@, streaming_vpin),
            !.risk_metrics.phantom_liquidity_index =
                RDiv(RAdd(RAdd(depth_penalty, spoof_penalty),
                          RAdd(layering_penalty, flow_penalty)), FromInt(4)),
            !.liquidity_metrics.fleeting_order_ratio = phantom_metrics.fleeting_order_ratio,
            !.liquidity_metrics.avg_order_lifetime_ms = phantom_metrics.avg_order_lifetime_ms,
            !.liquidity_metrics.layering_detection_score = phantom_metrics.layering_score,
            !.liquidity_metrics.spoofing_detection_index = FromInt(phantom_metrics.spoofing_events),
            !.liquidity_metrics.cancel_rate = phantom_metrics.cancellation_rate,
            !.liquidity_metrics.liquidity_realization_rate = liquidity_realization_rate,
            !.liquidity_metrics.bid_ask_spread_bps = insert_all(@, real_time_spreads),
            !.performance_metrics.total_volume = overlay_total_volume(@, streaming_volume),
            !.vault_metrics.tvl = vs.tvl,
            !.vault_metrics.equity = vs.equity,
            !.vault_metrics.apr = vs.apr,
            !.vault_metrics.deployed_liquidity = vs.deployed_liquidity,
            !.vault_metrics.idle_liquidity = vs.idle_liquidity,
            !.vault_metrics.utilization_rate = RSub(One, R(vs.idle_liquidity, vs.tvl)) ]

\* the `if let Some(ref engine)` block of update_metrics: the views read under
\* one read guard of the engine, then written over the batch record
overlay(gm, e, vs) == overlay_views(gm, engine_views(e), vs)

\* vault_summary.idle_liquidity / vault_summary.tvl on Decimal panics on a zero divisor
overlay_panics(vs) == vs.tvl = 0

---------------------------------------------------------------------------
(* Inputs: what the exchange collaborator can deliver *)

mk_fill(coin, px, sz, side, closed_pnl, fee) ==
    [ coin |-> coin, px |-> px, sz |-> sz, side |-> side, closed_pnl |-> closed_pnl, fee |-> fee ]

mk_level(px, sz, n) == [ px |-> px, sz |-> sz, n |-> n ]

\* BTC and ETH are majors (leverage ceiling >= 10), JELLY is an isolated minor
TheMeta ==
    [ universe |->
        << [ name |-> "BTC", max_leverage |-> 50, only_isolated |-> FALSE ],
           [ name |-> "ETH", max_leverage |-> 25, only_isolated |-> FALSE ],
           [ name |-> "JELLY", max_leverage |-> 3, only_isolated |-> TRUE ] >> ]

BuyHalf == mk_fill("BTC", 100, 50, "B", 2, 0)
SellHalf == mk_fill("BTC", 100, 50, "A", 0, 1)
BuyFull == mk_fill("ETH", 100, 100, "B", 6, 1)
SellBig == mk_fill("ETH", 50, -300, "A", -2, 1)
MinorSell == mk_fill("JELLY", 50, -150, "A", -2, 0)

BookThin ==
    [ coin |-> "BTC", bids |-> << mk_level(99, 10, 1) >>, asks |-> << mk_level(101, 10, 1) >> ]
BookDeep ==
    [ coin |-> "BTC",
      bids |-> << mk_level(99, 10, 3), mk_level(98, 10, 1), mk_level(97, 10, 1),
                  mk_level(96, 10, 1), mk_level(95, 10, 1) >>,
      asks |-> << mk_level(99, 10, 3), mk_level(102, 5, 1) >> ]

VaultHealthy ==
    [ tvl |-> 100, equity |-> 100, apr |-> R(576, 100), max_drawdown |-> Zero,
      deployed_liquidity |-> 60, idle_liquidity |-> 40 ]
VaultStressed ==
    [ tvl |-> 100, equity |-> 20, apr |-> R(576, 100), max_drawdown |-> R(3, 10),
      deployed_liquidity |-> 95, idle_liquidity |-> 5 ]
VaultEmpty ==
    [ tvl |-> 0, equity |-> 0, apr |-> Zero, max_drawdown |-> Zero,
      deployed_liquidity |-> 0, idle_liquidity |-> 0 ]

mk_snap(vs, margin, fills, books) ==
    [ vault_summary |-> vs, user_state |-> [ total_margin_used |-> margin ],
      meta |-> TheMeta, recent_fills |-> fills, l2_snapshots |-> books ]

NoSnap == mk_snap(VaultEmpty, 0, <<>>, EmptyMap)

\* the three order actions of OrderAction
OrderActions == {"New", "Filled", "Cancelled"}

\* the five fetches of update_metrics, in call order, and "ok" when none fails
FetchOutcomes ==
    {"ok", "vault_summary", "user_state", "meta", "recent_fills", "l2_snapshots"}

---------------------------------------------------------------------------
(* The tasks *)

InitCollector ==
    [ pc |-> "tick", update_counter |-> 0, last_arm |-> "none", failed_fetch |-> "ok",
      snap |-> NoSnap,
      batch_vpin |-> Zero, streaming_vpin |-> Zero, new_metrics |-> DefaultMetrics,
      published |-> DefaultMetrics, metrics_for_alerts |-> DefaultMetrics,
      new_alerts |-> <<>>, drained |-> 0 ]

InitUi ==
    [ pc |-> "metrics", update_counter |-> 0,
      metrics_snapshot |-> DefaultMetrics, alerts_snapshot |-> <<>> ]

\* RwLock::new(..): no guard out, nobody waiting
free_lock == [ readers |-> {}, writer |-> "none", queue |-> <<>> ]

NoGuards == [ engine |-> free_lock, metrics |-> free_lock, alerts |-> free_lock ]

\* the message a receiver handed to the engine task, none at the top of the loop
NoMessage ==
    [ kind |-> "none", fill |-> <<>>, order_lifetime |-> 0, snapshot |-> <<>>,
      action |-> "none", id |-> 0 ]

\* the engine task at the top of its loop: committed is the engine as the last
\* completed handler left it, iterations the number of loop bodies completed
IdleEngineTask ==
    [ pc |-> "select", msg |-> NoMessage, step |-> 0, iterations |-> 0,
      committed |-> new_engine ]

\* the order event the engine task took last from order_rx, none yet
NoOrderEvent == [ action |-> "none", id |-> 0 ]

InitReceived == [ trades |-> 0, l2 |-> 0, orders |-> 0, last_order |-> NoOrderEvent ]

\* StreamingMetricsEngine::run, the trade arm: one fill received and processed
\* under the engine's write lock
engine_trade(fills, lifetimes, max) ==
    /\ config.streaming
    /\ received.trades + received.l2 + received.orders < max
    /\ \E fill \in fills, order_lifetime \in lifetimes :
          engine' = process_trade(engine, fill, order_lifetime)
    /\ received' = [ received EXCEPT !.trades = @ + 1 ]
    /\ UNCHANGED <<guards, engine_task, config, now, metrics, alerts, alert_seq, collector, ui, produced>>

\* StreamingMetricsEngine::run, the l2 arm
engine_l2_update(books, max) ==
    /\ config.streaming
    /\ received.trades + received.l2 + received.orders < max
    /\ \E snapshot \in books : engine' = process_l2_update(engine, snapshot)
    /\ received' = [ received EXCEPT !.l2 = @ + 1 ]
    /\ UNCHANGED <<guards, engine_task, config, now, metrics, alerts, alert_seq, collector, ui, produced>>

\* StreamingMetricsEngine::run, the order arm; dt ms have passed since the
\* previous order event
engine_order(ids, steps, max) ==
    /\ config.streaming
    /\ received.trades + received.l2 + received.orders < max
    /\ \E id \in ids, action \in OrderActions, dt \in steps :
          /\ now' = now + dt
          /\ engine' = CASE action = "New" -> on_new_order(engine, id, now')
                         [] action = "Cancelled" -> on_cancel_or_fill(engine, id, TRUE, now')
                         [] action = "Filled" -> on_cancel_or_fill(engine, id, FALSE, now')
          /\ received' = [ received EXCEPT !.orders = @ + 1,
                                           !.last_order = [ action |-> action, id |-> id ] ]
    /\ UNCHANGED <<guards, engine_task, config, metrics, alerts, alert_seq, collector, ui, produced>>

\* what update_metrics leaves in the task for a fetched snap: Err is decided by
\* the caller, Ok(global_metrics) or the panic of the overlay here
after_update_metrics(c, snap, streaming, e) ==
    LET gm == batch_metrics(snap, Stamp("collector", c.update_counter))
    IN  IF ~streaming
        THEN [ c EXCEPT !.pc = "publish", !.snap = snap, !.new_metrics = gm,
                        !.batch_vpin = gm.risk_metrics.vpin_score ]
        ELSE IF overlay_panics(snap.vault_summary)
        THEN [ c EXCEPT !.pc = "panicked", !.snap = snap ]
        ELSE [ c EXCEPT !.pc = "publish", !.snap = snap,
                        !.batch_vpin = gm.risk_metrics.vpin_score,
                        !.streaming_vpin = get_current_vpin(e),
                        !.new_metrics = overlay(gm, e, snap.vault_summary) ]

\* data_collection_loop: interval.tick(), update_counter += 1, and update_metrics:
\* the five fetches (the first failing one returns Err), the batch calculators,
\* then the overlay from the engine's views read under one read guard.  The
\* fetches touch nothing shared, so the call is one step at the engine read.
update_metrics(snaps, max) ==
    /\ config.operating_mode = "Live"
    /\ collector.pc = "tick"
    /\ collector.update_counter < max
    /\ \E outcome \in FetchOutcomes, snap \in snaps :
          LET c == [ InitCollector EXCEPT
                       !.update_counter = collector.update_counter + 1,
                       !.failed_fetch = outcome ]
          IN  collector' =
                IF outcome # "ok" THEN [ c EXCEPT !.pc = "failed" ]
                ELSE after_update_metrics(c, snap, config.streaming, engine)
    /\ UNCHANGED <<guards, engine_task, config, engine, now, metrics, alerts, alert_seq, ui, received, produced>>

\* what the Ok arm stores under the write guard of the published metrics
published_value(new_metrics, test_mode, counter) ==
    IF test_mode
    THEN apply_test_modifications(new_metrics, counter, Stamp("collector", counter))
    ELSE new_metrics

\* data_collection_loop, Ok arm: *metrics_guard = new_metrics (+ test modifications)
publish_metrics ==
    /\ collector.pc = "publish"
    /\ metrics' = published_value(collector.new_metrics, config.test_mode, collector.update_counter)
    /\ produced' = metrics'
    /\ collector' = [ collector EXCEPT !.pc = "evaluate", !.published = metrics' ]
    /\ UNCHANGED <<guards, engine_task, config, engine, now, alerts, alert_seq, ui, received>>

\* metrics.read().await.clone(), then alert::check_alerts on the clone
evaluate_alerts ==
    /\ collector.pc = "evaluate"
    /\ collector' = [ collector EXCEPT !.pc = "append",
                                       !.metrics_for_alerts = metrics,
                                       !.new_alerts = check_alerts(metrics, alert_seq) ]
    /\ alert_seq' = alert_seq + Len(collector'.new_alerts)
    /\ UNCHANGED <<guards, engine_task, config, engine, now, metrics, alerts, ui, received, produced>>

\* a compaction that cuts the newest entries instead of the oldest
extend_and_drain_newest(log, new, cap, half) ==
    LET extended == log \o new
    IN  IF new = <<>> THEN log
        ELSE IF Len(extended) > cap THEN SubSeq(extended, 1, Len(extended) - half)
        ELSE extended

\* a compaction that starts as soon as the log reaches the cap
extend_and_drain_from_cap(log, new, cap, half) ==
    LET extended == log \o new
    IN  IF new = <<>> THEN log
        ELSE IF Len(extended) >= cap THEN SubSeq(extended, half + 1, Len(extended))
        ELSE extended

\* alerts_guard.extend(new); if len > cap { drain(0..half) }, skipped when new is empty
extend_and_drain(log, new, cap, half) ==
    LET extended == log \o new
    IN  IF new = <<>> THEN log
        ELSE IF Len(extended) > cap THEN SubSeq(extended, half + 1, Len(extended))
        ELSE extended

\* data_collection_loop: the append to the alert log, cap 1000, half 500
append_alerts ==
    /\ config.operating_mode = "Live"
    /\ collector.pc = "append"
    /\ alerts' = extend_and_drain(alerts, collector.new_alerts, 1000, 500)
    /\ collector' = [ InitCollector EXCEPT
                        !.update_counter = collector.update_counter,
                        !.last_arm = "Ok",
                        !.drained = Len(alerts) + Len(collector.new_alerts) - Len(alerts') ]
    /\ UNCHANGED <<guards, engine_task, config, engine, now, metrics, alert_seq, ui, received, produced>>

\* an Err arm that stores the synthetic metrics whatever the mode
metrics_after_failure_always(current, test_mode, counter) ==
    apply_test_modifications(create_test_metrics(Stamp("collector", counter)),
                             counter, Stamp("collector", counter))

\* data_collection_loop, Err arm: what the published metrics hold after it; in
\* test mode the synthetic metrics are stored, otherwise nothing is written
metrics_after_failure(current, test_mode, counter) ==
    IF test_mode
    THEN apply_test_modifications(create_test_metrics(Stamp("collector", counter)),
                                  counter, Stamp("collector", counter))
    ELSE current

\* an Err arm that evaluates and appends alerts for the metrics it leaves
handle_failure_evaluating ==
    /\ collector.pc = "failed"
    /\ collector' = [ collector EXCEPT !.pc = "tick", !.last_arm = "Err",
                                       !.failed_fetch = "ok" ]
    /\ metrics' = metrics_after_failure(metrics, config.test_mode, collector.update_counter)
    /\ produced' = IF config.test_mode THEN metrics' ELSE produced
    /\ alerts' = extend_and_drain(alerts, check_alerts(metrics', alert_seq), 1000, 500)
    /\ alert_seq' = alert_seq + Len(check_alerts(metrics', alert_seq))
    /\ UNCHANGED <<guards, engine_task, config, engine, now, ui, received>>

\* data_collection_loop, Err arm
handle_failure ==
    /\ collector.pc = "failed"
    /\ collector' = [ collector EXCEPT !.pc = "tick", !.last_arm = "Err",
                                       !.failed_fetch = "ok" ]
    /\ metrics' = metrics_after_failure(metrics, config.test_mode, collector.update_counter)
    /\ produced' = IF config.test_mode THEN metrics' ELSE produced
    /\ UNCHANGED <<guards, engine_task, config, engine, now, alerts, alert_seq, ui, received>>

\* test_data_loop: tick, the synthetic metrics and their publication
test_publish(max) ==
    /\ config.operating_mode = "Demo"
    /\ collector.pc = "tick"
    /\ collector.update_counter < max
    /\ metrics' =
         apply_test_modifications(
           create_test_metrics(Stamp("collector", collector.update_counter + 1)),
           collector.update_counter + 1, Stamp("collector", collector.update_counter + 1))
    /\ produced' = metrics'
    /\ collector' = [ InitCollector EXCEPT
                        !.pc = "evaluate",
                        !.update_counter = collector.update_counter + 1,
                        !.published = metrics' ]
    /\ UNCHANGED <<guards, engine_task, config, engine, now, alerts, alert_seq, ui, received>>

\* test_data_loop: the append to the alert log, cap 100, half 50
test_append_alerts ==
    /\ config.operating_mode = "Demo"
    /\ collector.pc = "append"
    /\ alerts' = extend_and_drain(alerts, collector.new_alerts, 100, 50)
    /\ collector' = [ InitCollector EXCEPT
                        !.update_counter = collector.update_counter,
                        !.last_arm = "Ok",
                        !.drained = Len(alerts) + Len(collector.new_alerts) - Len(alerts') ]
    /\ UNCHANGED <<guards, engine_task, config, engine, now, metrics, alert_seq, ui, received, produced>>

\* run_ui_enhanced: update_counter += 1 and the clone of the published metrics
ui_read_metrics(max) ==
    /\ ui.pc = "metrics"
    /\ ui.update_counter < max
    /\ ui' = [ ui EXCEPT !.pc = "alerts", !.update_counter = @ + 1,
                         !.metrics_snapshot = metrics ]
    /\ UNCHANGED <<guards, engine_task, config, engine, now, metrics, alerts, alert_seq, collector, received, produced>>

\* run_ui_enhanced: the clone of the alert log
ui_read_alerts ==
    /\ ui.pc = "alerts"
    /\ ui' = [ ui EXCEPT !.pc = "poll", !.alerts_snapshot = alerts ]
    /\ UNCHANGED <<guards, engine_task, config, engine, now, metrics, alerts, alert_seq, collector, received, produced>>

\* run_ui_enhanced: the poll times out or reads a key that leaves the metrics
\* alone; the iteration ends and its two snapshots are dropped
ui_no_key ==
    /\ ui.pc = "poll"
    /\ ui' = [ InitUi EXCEPT !.update_counter = ui.update_counter ]
    /\ UNCHANGED <<guards, engine_task, config, engine, now, metrics, alerts, alert_seq, collector, received, produced>>

\* run_ui_enhanced: key 't' applies the test modifications to the published
\* metrics in place, under the write guard
ui_key_t ==
    /\ ui.pc = "poll"
    /\ metrics' = apply_test_modifications(metrics, ui.update_counter,
                                           Stamp("ui", ui.update_counter))
    /\ ui' = [ InitUi EXCEPT !.update_counter = ui.update_counter ]
    /\ UNCHANGED <<guards, engine_task, config, engine, now, alerts, alert_seq, collector, received, produced>>

---------------------------------------------------------------------------
(* Spec: the live dashboard (run_dashboard): the engine task, the            *)
(* data_collection_loop task and the UI task, interleaved                    *)

MaxCycles == 2
MaxUiLoops == 1
MaxEngineEvents == 1

SpecFills == {BuyFull, SellHalf}
SpecLifetimes == {50}
SpecBooks == {BookDeep}
SpecOrderIds == {1}
SpecTimeSteps == {50}
SpecSnaps ==
    { mk_snap(VaultStressed, 95, <<SellHalf, BuyHalf>>, [BTC |-> BookThin]),
      mk_snap(VaultEmpty, 0, <<BuyFull>>, EmptyMap) }

Init ==
    /\ config \in [ operating_mode : {"Live"}, test_mode : BOOLEAN, streaming : BOOLEAN ]
    /\ engine = new_engine
    /\ now = 0
    /\ metrics = DefaultMetrics
    /\ alerts = <<>>
    /\ alert_seq = 0
    /\ collector = InitCollector
    /\ ui = InitUi
    /\ received = InitReceived
    /\ produced = DefaultMetrics
    /\ guards = NoGuards
    /\ engine_task = IdleEngineTask

Next ==
    \/ engine_trade(SpecFills, SpecLifetimes, MaxEngineEvents)
    \/ engine_l2_update(SpecBooks, MaxEngineEvents)
    \/ engine_order(SpecOrderIds, SpecTimeSteps, MaxEngineEvents)
    \/ update_metrics(SpecSnaps, MaxCycles)
    \/ publish_metrics
    \/ evaluate_alerts
    \/ append_alerts
    \/ handle_failure
    \/ ui_read_metrics(MaxUiLoops)
    \/ ui_read_alerts
    \/ ui_no_key
    \/ ui_key_t

Spec == Init /\ [][Next]_vars

---------------------------------------------------------------------------
(* Claims on Spec *)

\* C1, as amended: merge precedence.  When a cycle run with an engine attached
\* and test mode off has published, the vpin_score it stored is the engine's
\* live VPIN as that cycle read it, whatever the batch calculator computed.
C1_MergePrecedence ==
    (collector.pc = "evaluate" /\ config.streaming /\ ~config.test_mode)
        => collector.published.risk_metrics.vpin_score = collector.streaming_vpin

\* a cycle has published the engine's VPIN 1.0 over a batch VPIN of 0.0
C1_EngineValueWins ==
    /\ collector.pc = "evaluate" /\ config.streaming /\ ~config.test_mode
    /\ collector.streaming_vpin = One
    /\ collector.batch_vpin = Zero
    /\ collector.published.risk_metrics.vpin_score = One

\* C1 as stated: the same in every cycle run with an engine attached, test
\* mode or not
C1_MergePrecedenceInEveryMode ==
    (collector.pc = "evaluate" /\ config.streaming)
        => collector.published.risk_metrics.vpin_score = collector.streaming_vpin

\* C2 as stated: atomic publish.  Every GlobalMetrics value a reader obtains (the
\* UI's clone, the publisher's own re-read for the alerts) is the initial default
\* or the complete record stored by one update cycle, never a record modified
\* in place.
C2_ReaderObtainsWholeRecord ==
    [][ /\ (ui.pc = "metrics" /\ ui'.pc = "alerts") => ui'.metrics_snapshot = produced
        /\ (collector.pc = "evaluate" /\ collector'.pc = "append")
              => collector'.metrics_for_alerts = produced ]_vars

\* C3, as amended: with test mode off, the steps of a cycle in which a fetch
\* failed leave the published GlobalMetrics as they were, and the cycle goes back
\* to the tick without publishing.
C3_FailedCycleKeepsMetrics ==
    [][ ( /\ collector' # collector
          /\ (collector'.pc = "failed" \/ collector.pc = "failed")
          /\ ~config.test_mode )
        => /\ metrics' = metrics
           /\ collector.pc = "failed" => collector'.pc = "tick" ]_vars

\* the second cycle failed with test mode off, and the record of the first is
\* still the published one
C3_FailedAfterPublish ==
    /\ ~config.test_mode
    /\ collector.pc = "tick" /\ collector.last_arm = "Err" /\ collector.update_counter = 2
    /\ metrics = produced
    /\ metrics # DefaultMetrics

\* C3 as stated: the same in every mode
C3_FailedCycleKeepsMetricsInEveryMode ==
    [][ ( /\ collector' # collector
          /\ (collector'.pc = "failed" \/ collector.pc = "failed") )
        => /\ metrics' = metrics
           /\ collector.pc = "failed" => collector'.pc = "tick" ]_vars

\* the alerts of the sequence as that carry the metric tag
alerts_tagged(as, metric) == {i \in DOMAIN as : as[i].metric = metric}

\* C8 as stated: no suppression across cycles.  For every metric whose alert
\* condition holds in the record a successful cycle published, that cycle appends
\* exactly one alert for the metric, so k such cycles append k.
C8_OneAlertPerCycleWhileConditionHolds ==
    collector.pc = "append"
        => \A i \in DOMAIN alerts_of(collector.published) :
              Cardinality(alerts_tagged(collector.new_alerts,
                                        alerts_of(collector.published)[i].metric)) = 1

---------------------------------------------------------------------------
(* SpecAlert: one evaluation of check_alerts, as the collection loop runs it,  *)
(* on GlobalMetrics drawn from a grid around every threshold                    *)

\* GlobalMetrics::default() with the nine monitored fields set
alert_input(vpin, pli, liq, dd, util, conc, cancel, fleeting, sharpe) ==
    [ DefaultMetrics EXCEPT
        !.risk_metrics.vpin_score = vpin,
        !.risk_metrics.phantom_liquidity_index = pli,
        !.risk_metrics.liquidation_risk_score = liq,
        !.risk_metrics.max_drawdown = dd,
        !.vault_metrics.utilization_rate = util,
        !.risk_metrics.position_concentration = conc,
        !.liquidity_metrics.cancel_rate = cancel,
        !.liquidity_metrics.fleeting_order_ratio = fleeting,
        !.performance_metrics.sharpe_ratio = sharpe ]

\* below, at and above each threshold
VpinValues == {Zero, R(5, 10), R(6, 10), R(7, 10), R(75, 100)}
PliValues == {Zero, R(4, 10), R(5, 10), R(6, 10), R(8, 10)}
LiqValues == {Zero, R(7, 10), R(8, 10), R(85, 100), R(9, 10)}
DrawdownValues == {Zero, R(15, 100), R(2, 10), R(25, 100), R(3, 10)}
UtilValues == {Zero, R(9, 10), R(95, 100)}
ConcValues == {EmptyMap, [BTC |-> R(15, 100)], [BTC |-> R(8, 100), ETH |-> R(2, 10)]}
CancelValues == {Zero, R(5, 10), R(6, 10)}
FleetingValues == {Zero, R(2, 10), R(3, 10)}
SharpeValues == {R(-1, 2), Zero, One, R(221, 100)}

AlertInputs ==
    { alert_input(v, p, l, d, Zero, EmptyMap, Zero, Zero, s) :
        v \in VpinValues, p \in PliValues, l \in LiqValues, d \in DrawdownValues,
        s \in SharpeValues }
    \cup
    { alert_input(Zero, Zero, Zero, Zero, u, c, r, f, s) :
        u \in UtilValues, c \in ConcValues, r \in CancelValues, f \in FleetingValues,
        s \in SharpeValues }
    \cup
    { alert_input(R(75, 100), R(8, 10), R(9, 10), R(3, 10), R(95, 100),
                  [BTC |-> R(8, 100), ETH |-> R(2, 10)], R(6, 10), R(3, 10), Zero) }

InitAlert ==
    /\ config = [ operating_mode |-> "Live", test_mode |-> FALSE, streaming |-> FALSE ]
    /\ engine = new_engine
    /\ now = 0
    /\ metrics \in AlertInputs
    /\ alerts = <<>>
    /\ alert_seq = 0
    /\ collector = [ InitCollector EXCEPT !.pc = "evaluate", !.update_counter = 1,
                                          !.published = metrics ]
    /\ ui = InitUi
    /\ received = InitReceived
    /\ produced = metrics
    /\ guards = NoGuards
    /\ engine_task = IdleEngineTask

NextAlert ==
    \/ evaluate_alerts
    \/ append_alerts

SpecAlert == InitAlert /\ [][NextAlert]_vars

\* what the claim says of a two-level metric of value v: at most one alert,
\* Critical iff v > critical, Warning iff v > warning and not v > critical, and
\* the alert carries the threshold crossed and the value
two_level_claim(as, metric, v, critical, warning) ==
    LET hits == alerts_tagged(as, metric)
        crit == {i \in hits : as[i].level = "Critical"}
        warn == {i \in hits : as[i].level = "Warning"}
    IN  /\ Cardinality(hits) <= 1
        /\ hits = crit \cup warn
        /\ (crit # {}) <=> RGt(v, critical)
        /\ (warn # {}) <=> (RGt(v, warning) /\ ~RGt(v, critical))
        /\ \A i \in crit : as[i].threshold = critical /\ as[i].value = v
        /\ \A i \in warn : as[i].threshold = warning /\ as[i].value = v

\* C4: for each two-level metric one evaluation yields at most one alert:
\* Critical iff the value is above the critical threshold, Warning iff it is above
\* the warning threshold and not above the critical one, none otherwise, and the
\* threshold field is the threshold crossed.
C4_TwoLevelAlerts ==
    collector.pc = "append" =>
        LET m == collector.metrics_for_alerts
            as == collector.new_alerts
        IN  /\ two_level_claim(as, "VPIN", m.risk_metrics.vpin_score, R(7, 10), R(5, 10))
            /\ two_level_claim(as, "Phantom Liquidity",
                               m.risk_metrics.phantom_liquidity_index, R(6, 10), R(4, 10))
            /\ two_level_claim(as, "Liquidation Risk",
                               m.risk_metrics.liquidation_risk_score, R(85, 100), R(7, 10))
            /\ two_level_claim(as, "Max Drawdown", m.risk_metrics.max_drawdown,
                               R(25, 100), R(15, 100))

\* one evaluation with a Critical VPIN alert, a Warning Phantom Liquidity alert,
\* a liquidation risk on its critical threshold and a drawdown on its warning one
C4_CriticalWarningAndNone ==
    /\ collector.pc = "append"
    /\ collector.metrics_for_alerts.risk_metrics.vpin_score = R(75, 100)
    /\ collector.metrics_for_alerts.risk_metrics.phantom_liquidity_index = R(5, 10)
    /\ collector.metrics_for_alerts.risk_metrics.liquidation_risk_score = R(85, 100)
    /\ collector.metrics_for_alerts.risk_metrics.max_drawdown = R(15, 100)
    /\ \E i \in DOMAIN collector.new_alerts :
          collector.new_alerts[i].metric = "VPIN" /\ collector.new_alerts[i].level = "Critical"
    /\ \E i \in DOMAIN collector.new_alerts :
          /\ collector.new_alerts[i].metric = "Phantom Liquidity"
          /\ collector.new_alerts[i].level = "Warning"
    /\ alerts_tagged(collector.new_alerts, "Max Drawdown") = {}

\* a value equal to the threshold t yields no alert of that threshold
no_alert_of_threshold(as, metric, v, t) ==
    v = t => \A i \in alerts_tagged(as, metric) : as[i].threshold # t

\* a value equal to the (lowest) threshold t yields no alert for the metric
no_alert_at(as, metric, v, t) == v = t => alerts_tagged(as, metric) = {}

\* C5: strict inequality.  A value exactly equal to a threshold of its metric
\* produces no alert of that threshold; on the warning (or only) threshold it
\* produces no alert for the metric at all; sharpe_ratio = 1.0 gives no Sharpe alert.
C5_StrictInequality ==
    collector.pc = "append" =>
        LET m == collector.metrics_for_alerts
            as == collector.new_alerts
        IN  /\ no_alert_of_threshold(as, "VPIN", m.risk_metrics.vpin_score, R(7, 10))
            /\ no_alert_at(as, "VPIN", m.risk_metrics.vpin_score, R(5, 10))
            /\ no_alert_of_threshold(as, "Phantom Liquidity",
                                     m.risk_metrics.phantom_liquidity_index, R(6, 10))
            /\ no_alert_at(as, "Phantom Liquidity",
                           m.risk_metrics.phantom_liquidity_index, R(4, 10))
            /\ no_alert_of_threshold(as, "Liquidation Risk",
                                     m.risk_metrics.liquidation_risk_score, R(85, 100))
            /\ no_alert_at(as, "Liquidation Risk",
                           m.risk_metrics.liquidation_risk_score, R(7, 10))
            /\ no_alert_of_threshold(as, "Max Drawdown", m.risk_metrics.max_drawdown, R(25, 100))
            /\ no_alert_at(as, "Max Drawdown", m.risk_metrics.max_drawdown, R(15, 100))
            /\ no_alert_at(as, "Utilization", m.vault_metrics.utilization_rate, R(9, 10))
            /\ no_alert_at(as, "Position Concentration", max_concentration(m), R(15, 100))
            /\ no_alert_at(as, "Cancel Rate", m.liquidity_metrics.cancel_rate, R(5, 10))
            /\ no_alert_at(as, "Fleeting Orders",
                           m.liquidity_metrics.fleeting_order_ratio, R(2, 10))
            /\ no_alert_at(as, "Sharpe Ratio", m.performance_metrics.sharpe_ratio, One)

\* vpin_score = 0.7 gave a Warning and no Critical alert, sharpe_ratio = 1.0 none
C5_OnTheThresholds ==
    /\ collector.pc = "append"
    /\ collector.metrics_for_alerts.risk_metrics.vpin_score = R(7, 10)
    /\ collector.metrics_for_alerts.performance_metrics.sharpe_ratio = One
    /\ \E i \in DOMAIN collector.new_alerts :
          collector.new_alerts[i].metric = "VPIN" /\ collector.new_alerts[i].level = "Warning"
    /\ alerts_tagged(collector.new_alerts, "Sharpe Ratio") = {}

\* the alerts without their ids
without_ids(as) ==
    [ i \in DOMAIN as |->
        [ level |-> as[i].level, metric |-> as[i].metric, value |-> as[i].value,
          threshold |-> as[i].threshold ] ]

\* GlobalMetrics::default() but for vpin_score = 0.75
NeutralHighVpin == alert_input(R(75, 100), Zero, Zero, Zero, Zero, EmptyMap, Zero, Zero, Zero)

CriticalVpinAlert ==
    [ level |-> "Critical", metric |-> "VPIN", value |-> R(75, 100), threshold |-> R(7, 10) ]

\* C6, as amended: on a snapshot neutral but for vpin_score = 0.75 the evaluation
\* returns the Critical "VPIN" alert of threshold 0.7 and value 0.75, alone when
\* sharpe_ratio is at least 1.0; with the default sharpe_ratio 0.0 (or any below
\* 1.0) it is followed by the Info "Sharpe Ratio" alert: two alerts.
C6_NeutralSnapshotHighVpin ==
    LET m == collector.metrics_for_alerts
        sharpe == m.performance_metrics.sharpe_ratio
    IN  ( /\ collector.pc = "append"
          /\ [ m EXCEPT !.performance_metrics.sharpe_ratio = Zero ] = NeutralHighVpin )
        => without_ids(collector.new_alerts) =
             IF RLt(sharpe, One)
             THEN << CriticalVpinAlert,
                     [ level |-> "Info", metric |-> "Sharpe Ratio", value |-> sharpe,
                       threshold |-> One ] >>
             ELSE << CriticalVpinAlert >>

\* the default snapshot with vpin_score 0.75 has been evaluated: two alerts
C6_DefaultWithHighVpinEvaluated ==
    /\ collector.pc = "append"
    /\ collector.metrics_for_alerts = NeutralHighVpin
    /\ Len(collector.new_alerts) = 2

\* C6 as stated: the default snapshot with vpin_score 0.75 yields exactly one
\* alert, Critical "VPIN" with threshold 0.7 and value 0.75
C6_ExactlyOneAlert ==
    (collector.pc = "append" /\ collector.metrics_for_alerts = NeutralHighVpin)
        => without_ids(collector.new_alerts) = << CriticalVpinAlert >>

\* C7: Sharpe is the only metric compared with less-than.  One evaluation
\* yields one Info "Sharpe Ratio" alert of threshold 1.0 iff sharpe_ratio < 1.0,
\* never a Warning or Critical one, and every other alert is for a value above
\* its threshold.
C7_SharpeBelowThreshold ==
    collector.pc = "append" =>
        LET sharpe == collector.metrics_for_alerts.performance_metrics.sharpe_ratio
            as == collector.new_alerts
            hits == alerts_tagged(as, "Sharpe Ratio")
        IN  /\ (hits # {}) <=> RLt(sharpe, One)
            /\ Cardinality(hits) <= 1
            /\ \A i \in hits :
                  as[i].level = "Info" /\ as[i].threshold = One /\ as[i].value = sharpe
            /\ \A i \in (DOMAIN as) \ hits :
                  as[i].level \in {"Warning", "Critical"} /\ RGt(as[i].value, as[i].threshold)

\* a negative Sharpe ratio gave the Info alert next to a Critical one of another metric
C7_LowSharpeEvaluated ==
    /\ collector.pc = "append"
    /\ collector.metrics_for_alerts.performance_metrics.sharpe_ratio = R(-1, 2)
    /\ \E i \in DOMAIN collector.new_alerts :
          collector.new_alerts[i].metric = "Sharpe Ratio" /\ collector.new_alerts[i].level = "Info"
    /\ \E i \in DOMAIN collector.new_alerts : collector.new_alerts[i].level = "Critical"

---------------------------------------------------------------------------
(* SpecVpin: the streaming engine fed with trades, and one update cycle whose  *)
(* fetched fills are any short sequence, for the two VPIN calculations         *)

MaxFills == 3
MaxBatchFills == 2

VpinFills == {BuyHalf, SellHalf, SellBig, MinorSell}

\* the sequences over S of length at most n
SeqsUpTo(S, n) == UNION { [1..k -> S] : k \in 0..n }

VpinSnaps == { mk_snap(VaultHealthy, 50, fs, EmptyMap) : fs \in SeqsUpTo(VpinFills, MaxBatchFills) }

InitVpin ==
    /\ config = [ operating_mode |-> "Live", test_mode |-> FALSE, streaming |-> TRUE ]
    /\ engine = new_engine
    /\ now = 0
    /\ metrics = DefaultMetrics
    /\ alerts = <<>>
    /\ alert_seq = 0
    /\ collector = InitCollector
    /\ ui = InitUi
    /\ received = InitReceived
    /\ produced = DefaultMetrics
    /\ guards = NoGuards
    /\ engine_task = IdleEngineTask

NextVpin ==
    \/ engine_trade(VpinFills, SpecLifetimes, MaxFills)
    \/ update_metrics(VpinSnaps, 1)

SpecVpin == InitVpin /\ [][NextVpin]_vars

\* the notional of the fills on assets of leverage ceiling >= 10
RECURSIVE major_notional(_)
major_notional(fills) ==
    IF fills = <<>> THEN 0
    ELSE (IF Head(fills).coin \in {"BTC", "ETH"} THEN Head(fills).px * Abs(Head(fills).sz) ELSE 0)
         + major_notional(Tail(fills))

\* C10: every value in the VPIN bucket ring, the streaming VPIN view and the
\* batch VPIN lie in [0,1]; the view is 0 while no bucket has completed, and the
\* batch VPIN is 0 for an empty fill set or fills that complete no bucket.
C10_VpinInUnitInterval ==
    /\ \A i \in DOMAIN engine.vpin_buckets : InUnit(engine.vpin_buckets[i])
    /\ InUnit(get_current_vpin(engine))
    /\ engine.vpin_buckets = <<>> => get_current_vpin(engine) = Zero
    /\ collector.pc = "publish" =>
          /\ InUnit(collector.batch_vpin)
          /\ InUnit(collector.streaming_vpin)
          /\ collector.snap.recent_fills = <<>> => collector.batch_vpin = Zero
          /\ major_notional(collector.snap.recent_fills) < 10000 => collector.batch_vpin = Zero

\* the ring holds a bucket of imbalance 1/2 and one of 1, and a cycle computed a
\* batch VPIN of 1/2
C10_MixedBuckets ==
    /\ \E i \in DOMAIN engine.vpin_buckets : engine.vpin_buckets[i] = R(1, 2)
    /\ \E i \in DOMAIN engine.vpin_buckets : engine.vpin_buckets[i] = One
    /\ collector.pc = "publish"
    /\ collector.batch_vpin = R(1, 2)

---------------------------------------------------------------------------
(* SpecLog: the alert log near its cap, in the live loop (data_collection_loop) *)
(* and in the demo loop (test_data_loop)                                        *)

LogSnap == mk_snap(VaultStressed, 95, <<SellHalf, BuyHalf>>, [BTC |-> BookThin])

\* the record cycle k stores: the live loop on LogSnap without an engine, or
\* the demo loop
cycle_metrics(mode, test_mode, k) ==
    IF mode = "Live"
    THEN published_value(batch_metrics(LogSnap, Stamp("collector", k)), test_mode, k)
    ELSE apply_test_modifications(create_test_metrics(Stamp("collector", k)), k,
                                  Stamp("collector", k))

\* the alerts check_alerts returns in the cycles lo..hi, in order, without ids
RECURSIVE alerts_of_cycles(_, _, _, _)
alerts_of_cycles(mode, test_mode, lo, hi) ==
    IF lo > hi THEN <<>>
    ELSE IF lo = hi THEN alerts_of(cycle_metrics(mode, test_mode, lo))
    ELSE alerts_of_cycles(mode, test_mode, lo, (lo + hi) \div 2)
         \o alerts_of_cycles(mode, test_mode, (lo + hi) \div 2 + 1, hi)

\* the alert log after n successful cycles, none of which has compacted it yet
history(mode, test_mode, n) ==
    LET a == alerts_of_cycles(mode, test_mode, 1, n)
    IN  [ i \in 1..Len(a) |->
            [ id |-> i, level |-> a[i].level, metric |-> a[i].metric,
              value |-> a[i].value, threshold |-> a[i].threshold ] ]

LiveHorizon == 252
DemoHorizon == 148

\* the number of cycles already run: the log is within three cycles of its cap
CyclesBefore(mode) == IF mode = "Live" THEN 248..250 ELSE 144..146

LogSnaps == { LogSnap, mk_snap(VaultHealthy, 50, <<BuyFull>>, EmptyMap) }

InitLog ==
    /\ config \in { [ operating_mode |-> "Live", test_mode |-> FALSE, streaming |-> FALSE ],
                    [ operating_mode |-> "Demo", test_mode |-> TRUE, streaming |-> FALSE ] }
    /\ engine = new_engine
    /\ now = 0
    /\ \E n \in CyclesBefore(config.operating_mode) :
          /\ alerts = history(config.operating_mode, config.test_mode, n)
          /\ metrics = cycle_metrics(config.operating_mode, config.test_mode, n)
          /\ collector = [ InitCollector EXCEPT !.update_counter = n, !.last_arm = "Ok" ]
    /\ alert_seq = Len(alerts)
    /\ ui = InitUi
    /\ received = InitReceived
    /\ produced = metrics
    /\ guards = NoGuards
    /\ engine_task = IdleEngineTask

NextLog ==
    \/ update_metrics(LogSnaps, LiveHorizon)
    \/ publish_metrics
    \/ evaluate_alerts
    \/ append_alerts
    \/ handle_failure
    \/ test_publish(DemoHorizon)
    \/ test_append_alerts

SpecLog == InitLog /\ [][NextLog]_vars

\* the log after an append of new to log under a cap: beyond the cap the oldest
\* half entries are gone and the others keep their order, otherwise all are kept
log_after_append(log, new, cap, half) ==
    IF Len(log \o new) > cap
    THEN [ i \in 1..(Len(log \o new) - half) |-> (log \o new)[i + half] ]
    ELSE log \o new

\* C9, as amended: alert log eviction.  In the live loop, when appending a cycle's
\* alerts makes the log hold more than 1,000 entries exactly the 500 oldest are
\* removed and the others keep their order, and at most 1,000 nothing is removed;
\* in the demo loop the same holds with a cap of 100 and the 50 oldest.
C9_LogEviction ==
    [][ (collector.pc = "append" /\ collector'.pc = "tick")
        => alerts' = IF config.operating_mode = "Live"
                     THEN log_after_append(alerts, collector.new_alerts, 1000, 500)
                     ELSE log_after_append(alerts, collector.new_alerts, 100, 50) ]_vars

\* the live loop has compacted a log of 1,004 entries to 504, the entry created
\* 501st now first
C9_LiveLogCompacted ==
    /\ config.operating_mode = "Live"
    /\ collector.pc = "tick"
    /\ collector.drained = 500
    /\ Len(alerts) = 504
    /\ alerts[1].id = 501

\* C9 as stated: the cap of 1,000 and the 500 oldest, in every loop
C9_LogEvictionAtOneThousand ==
    [][ (collector.pc = "append" /\ collector'.pc = "tick")
        => alerts' = log_after_append(alerts, collector.new_alerts, 1000, 500) ]_vars

---------------------------------------------------------------------------
(* SpecEngine: the engine task taking trades, book updates and order events  *)
(* (StreamingMetricsEngine::run), and one update cycle of the publisher.     *)

MaxEngineSteps == 3

EngineFills == {BuyHalf, SellHalf, BuyFull}
EngineBooks == {BookThin, BookDeep}
EngineOrderIds == {1}
EngineTimeSteps == {50, 100}
\* a vault with more margin in use than tvl and a book the engine may not have;
\* a vault with tvl = 0 and no fills
EngineSnaps ==
    { mk_snap(VaultStressed, 150, <<BuyHalf, SellHalf>>, [BTC |-> BookThin]),
      mk_snap(VaultEmpty, 0, <<>>, EmptyMap) }

InitEngine ==
    /\ config \in [ operating_mode : {"Live"}, test_mode : {FALSE}, streaming : BOOLEAN ]
    /\ engine = new_engine
    /\ now = 0
    /\ metrics = DefaultMetrics
    /\ alerts = <<>>
    /\ alert_seq = 0
    /\ collector = InitCollector
    /\ ui = InitUi
    /\ received = InitReceived
    /\ produced = DefaultMetrics
    /\ guards = NoGuards
    /\ engine_task = IdleEngineTask

NextEngine ==
    \/ engine_trade(EngineFills, SpecLifetimes, MaxEngineSteps)
    \/ engine_l2_update(EngineBooks, MaxEngineSteps)
    \/ engine_order(EngineOrderIds, EngineTimeSteps, MaxEngineSteps)
    \/ update_metrics(EngineSnaps, 1)
    \/ publish_metrics

SpecEngine == InitEngine /\ [][NextEngine]_vars

\* the fill process_trade pushed last on the trade buffer
last_fill(e) == e.trade_buffer[Len(e.trade_buffer)]

\* two fills on opposite sides, of equal notional, that fill a bucket exactly
opposite_equal_halves(f1, f2, bucket_size) ==
    /\ (f1.side = "B") # (f2.side = "B")
    /\ notional(f1) = notional(f2)
    /\ notional(f1) + notional(f2) = bucket_size

EmptyAccumulator ==
    [ current_volume |-> 0, buy_volume |-> 0, sell_volume |-> 0, bucket_size |-> 10000 ]

\* C11: from an empty accumulator, two fills on opposite sides with equal
\* notional that sum to exactly the bucket threshold complete one bucket and the
\* imbalance pushed for it is 0.  In the engine: when the accumulator holds the
\* first fill alone and the second is taken, the ring gains the value 0 and the
\* accumulator is empty again.  In the batch calculator, which passes the fills
\* of major assets to the same algorithm: a fetched fill set of two such fills
\* leaves one bucket, 0, and a batch VPIN of 0.
C11_EqualOppositeFills ==
    [][ /\ ( /\ received'.trades = received.trades + 1
             /\ engine.trade_buffer # <<>>
             /\ engine.bucket_accumulator.current_volume = notional(last_fill(engine))
             /\ opposite_equal_halves(last_fill(engine), last_fill(engine'),
                                      engine.bucket_accumulator.bucket_size) )
           => /\ engine'.vpin_buckets = Append(engine.vpin_buckets, Zero)
              /\ engine'.bucket_accumulator = EmptyAccumulator
        /\ ( /\ collector'.pc = "publish"
             /\ Len(collector'.snap.recent_fills) = 2
             /\ \A i \in 1..2 : collector'.snap.recent_fills[i].coin
                                   \in assets_with_leverage(collector'.snap.meta, 10)
             /\ opposite_equal_halves(collector'.snap.recent_fills[1],
                                      collector'.snap.recent_fills[2], 10000) )
           => /\ vpin_replay(collector'.snap.recent_fills,
                             assets_with_leverage(collector'.snap.meta, 10),
                             << <<>>, 0, 0, 0 >>) = << <<Zero>>, 0, 0, 0 >>
              /\ collector'.batch_vpin = Zero
      ]_vars

\* the engine took a sell half then a buy half, and the cycle fetched a buy half
\* then a sell half: each calculator completed one bucket of imbalance 0
C11_BalancedBucketCompleted ==
    /\ engine.trade_buffer = <<SellHalf, BuyHalf>>
    /\ engine.vpin_buckets = <<Zero>>
    /\ engine.bucket_accumulator = EmptyAccumulator
    /\ collector.pc = "publish"
    /\ collector.snap.recent_fills = <<BuyHalf, SellHalf>>
    /\ collector.batch_vpin = Zero

\* C12: from an accumulator with no sell volume, one buy fill whose notional is
\* at least the bucket threshold completes a bucket at once: the value pushed is
\* 1 and the accumulator is reset to zero.
C12_SingleBuyFillsBucket ==
    [][ ( /\ received'.trades = received.trades + 1
          /\ engine.bucket_accumulator.sell_volume = 0
          /\ last_fill(engine').side = "B"
          /\ notional(last_fill(engine')) >= engine.bucket_accumulator.bucket_size )
        => /\ engine'.vpin_buckets = Append(engine.vpin_buckets, One)
           /\ engine'.bucket_accumulator = EmptyAccumulator
      ]_vars

\* a buy of the full bucket size arrived on top of an earlier buy half
C12_BuyOnlyBucketCompleted ==
    /\ engine.trade_buffer = <<BuyHalf, BuyFull>>
    /\ engine.vpin_buckets = <<One>>
    /\ engine.bucket_accumulator = EmptyAccumulator

\* the order event the engine took in this step, when it took one
order_taken(action, id) == [ action |-> action, id |-> id ]

\* C13: on a fresh engine that takes only New(1) and then Cancelled(1) 50 ms
\* later, the view reports fleeting ratio 1, cancellation rate 1 and an average
\* lifetime of 50 ms; and whenever an open order is closed, it is counted
\* fleeting iff it is closed less than 100 ms after its New.
C13_FleetingOrder ==
    [][ /\ ( /\ received.trades + received.l2 + received.orders = 1
             /\ received.last_order = order_taken("New", 1)
             /\ received'.orders = 2
             /\ received'.last_order = order_taken("Cancelled", 1)
             /\ now' = now + 50 )
           => /\ get_phantom_liquidity_metrics(engine').fleeting_order_ratio = One
              /\ get_phantom_liquidity_metrics(engine').cancellation_rate = One
              /\ get_phantom_liquidity_metrics(engine').avg_order_lifetime_ms = FromInt(50)
        /\ ( /\ received'.orders = received.orders + 1
             /\ received'.last_order.action \in {"Filled", "Cancelled"}
             /\ received'.last_order.id \in DOMAIN engine.active_orders )
           => engine'.order_flow_analyzer.fleeting_orders =
                 engine.order_flow_analyzer.fleeting_orders
                 + (IF now' - engine.active_orders[received'.last_order.id] < 100
                    THEN 1 ELSE 0)
      ]_vars

\* New(1) then Cancelled(1) 50 ms later, nothing else
C13_CancelledAfterFiftyMs ==
    /\ received = [ trades |-> 0, l2 |-> 0, orders |-> 2,
                    last_order |-> order_taken("Cancelled", 1) ]
    /\ engine.order_flow_analyzer =
         [ order_lifetimes |-> <<50>>, cancellation_events |-> 1,
           total_orders |-> 1, fleeting_orders |-> 1 ]

\* C14: a Filled or Cancelled event whose id is not in the open-order table
\* leaves the whole engine state as it was; so, counting the order events alone,
\* every tallied order took a New and one close, and every open one a New.
C14_UnknownCloseIgnored ==
    [][ /\ ( /\ received'.orders = received.orders + 1
             /\ received'.last_order.action \in {"Filled", "Cancelled"}
             /\ received'.last_order.id \notin DOMAIN engine.active_orders )
           => engine' = engine
        /\ received'.trades = 0
           => 2 * engine'.order_flow_analyzer.total_orders
                + Cardinality(DOMAIN engine'.active_orders) <= received'.orders
      ]_vars

\* New(1), Filled(1), then Cancelled(1): no cancellation was tallied, so the
\* last event found its id already closed
C14_DuplicateCloseTaken ==
    /\ received = [ trades |-> 0, l2 |-> 0, orders |-> 3,
                    last_order |-> order_taken("Cancelled", 1) ]
    /\ engine.active_orders = EmptyMap
    /\ engine.order_flow_analyzer.total_orders = 1
    /\ engine.order_flow_analyzer.cancellation_events = 0

\* the ratio and score fields of a GlobalMetrics record
ratio_fields(m) ==
    << m.risk_metrics.vpin_score, m.risk_metrics.phantom_liquidity_index,
       m.risk_metrics.liquidation_risk_score, m.risk_metrics.cascade_risk_score,
       m.vault_metrics.utilization_rate, m.liquidity_metrics.cancel_rate,
       m.liquidity_metrics.fleeting_order_ratio,
       m.liquidity_metrics.layering_detection_score,
       m.liquidity_metrics.spoofing_detection_index,
       m.liquidity_metrics.liquidity_realization_rate >>

\* C17: every GlobalMetrics a successful update cycle publishes, batch-only or
\* with the overlay, has each of its ratio and score fields within [0,1].
C17_RatiosInUnitInterval ==
    collector.pc = "evaluate"
       => \A i \in DOMAIN ratio_fields(metrics) : InUnit(ratio_fields(metrics)[i])

\* a fetched snapshot with tvl = 0, no fills or no traded volume
degenerate(snap) ==
    \/ snap.vault_summary.tvl = 0
    \/ snap.recent_fills = <<>>
    \/ \A i \in DOMAIN snap.recent_fills : notional(snap.recent_fills[i]) = 0

\* C18: degenerate inputs never abort a cycle: an update cycle whose fetched
\* snapshot has tvl = 0, no traded volume or no fills runs to its Ok result,
\* without or with the overlay; it never ends in a panic.
C18_DegenerateInputsNeverAbort ==
    (collector.failed_fetch = "ok" /\ collector.pc # "tick" /\ degenerate(collector.snap))
       => collector.pc \in {"publish", "evaluate"}

\* C20: when the overlay is active, the record a cycle builds has the engine's
\* view values read in that cycle in fleeting_order_ratio, avg_order_lifetime_ms,
\* layering_detection_score, spoofing_detection_index, cancel_rate and
\* liquidity_realization_rate, and its per-coin spread map is the engine's live
\* spread map.
C20_OverlayReplacesByLiveValues ==
    [][ (config.streaming /\ collector.pc = "tick" /\ collector'.pc = "publish")
        => LET pm == get_phantom_liquidity_metrics(engine)
               lm == collector'.new_metrics.liquidity_metrics
           IN  /\ lm.fleeting_order_ratio = pm.fleeting_order_ratio
               /\ lm.avg_order_lifetime_ms = pm.avg_order_lifetime_ms
               /\ lm.layering_detection_score = pm.layering_score
               /\ lm.spoofing_detection_index = FromInt(pm.spoofing_events)
               /\ lm.cancel_rate = pm.cancellation_rate
               /\ lm.liquidity_realization_rate = get_depth_realisation_ratio(engine)
               /\ lm.bid_ask_spread_bps = get_real_time_spreads(engine)
      ]_vars

\* C26 as stated: a trade changes only the bucket accumulator, the bucket ring,
\* the running total volume, the per-coin volume and the trade buffer: it leaves
\* the order-flow tally and its lifetime window, the open-order table, the
\* stored book snapshots and the phantom-liquidity accumulators as they were;
\* and the order-flow tally changes only on a Filled or Cancelled event for an
\* id in the open-order table.
C26_TradeLeavesOrderFlowAlone ==
    [][ /\ received'.trades = received.trades + 1
           => /\ engine'.order_flow_analyzer = engine.order_flow_analyzer
              /\ engine'.active_orders = engine.active_orders
              /\ engine'.l2_snapshots = engine.l2_snapshots
              /\ engine'.phantom_liquidity_tracker = engine.phantom_liquidity_tracker
        /\ engine'.order_flow_analyzer # engine.order_flow_analyzer
           => /\ received'.orders = received.orders + 1
              /\ received'.last_order.action \in {"Filled", "Cancelled"}
              /\ received'.last_order.id \in DOMAIN engine.active_orders
      ]_vars

---------------------------------------------------------------------------
(* SpecRing: the engine taking trades until its bucket ring is full and over *)

\* the trades of a fixed history the engine takes first, and the trades it
\* takes after them
RingHistory == 73
RingSteps == 5

RingFills == {BuyHalf, SellHalf, SellBig}

\* the i-th trade of the history: sell 15000, buy 5000, sell 15000, and again;
\* the buckets completed are 1, 1/2, 1, 1/2, ..., two for every three trades
ring_fill(i) == IF i % 3 = 2 THEN BuyHalf ELSE SellBig

\* what estimate_order_lifetime drew for the trades of the history
RingLifetimes == {200}

InitRing ==
    /\ config = [ operating_mode |-> "Live", test_mode |-> FALSE, streaming |-> TRUE ]
    /\ engine = new_engine
    /\ now = 0
    /\ metrics = DefaultMetrics
    /\ alerts = <<>>
    /\ alert_seq = 0
    /\ collector = InitCollector
    /\ ui = InitUi
    /\ received = InitReceived
    /\ produced = DefaultMetrics
    /\ guards = NoGuards
    /\ engine_task = IdleEngineTask

\* the trade arm taking the next trade of the history
engine_trade_of_history ==
    engine_trade({ring_fill(received.trades + 1)}, RingLifetimes, RingHistory)

\* the trade arm taking any trade, once the history is through
engine_trade_after_history ==
    /\ received.trades >= RingHistory
    /\ engine_trade(RingFills, SpecLifetimes, RingHistory + RingSteps)

NextRing ==
    \/ engine_trade_of_history
    \/ engine_trade_after_history

SpecRing == InitRing /\ [][NextRing]_vars

\* C19: the bucket ring never holds more than 50 values, and they are the
\* imbalances of the latest completed buckets in completion order: a trade that
\* completes a bucket appends its value, dropping the oldest value when the ring
\* already held 50, and a trade that completes none leaves the ring as it was.
C19_RingKeepsLatestFifty ==
    [][ received'.trades = received.trades + 1
        => /\ Len(engine'.vpin_buckets) <= 50
           /\ IF engine.bucket_accumulator.current_volume + notional(last_fill(engine'))
                    >= engine.bucket_accumulator.bucket_size
              THEN /\ engine'.vpin_buckets # <<>>
                   /\ LET v == engine'.vpin_buckets[Len(engine'.vpin_buckets)]
                      IN  engine'.vpin_buckets =
                             IF Len(engine.vpin_buckets) < 50
                             THEN Append(engine.vpin_buckets, v)
                             ELSE Tail(engine.vpin_buckets) \o <<v>>
              ELSE engine'.vpin_buckets = engine.vpin_buckets
      ]_vars

\* two more buckets completed on top of the 49 of the history: the 51st value
\* evicted the first (1), and the ring now starts with the second (1/2)
C19_FiftyFirstBucketPushed ==
    /\ received.trades = RingHistory + 2
    /\ Len(engine.vpin_buckets) = 50
    /\ engine.vpin_buckets[1] = R(1, 2)
    /\ engine.vpin_buckets[50] = One

---------------------------------------------------------------------------
(* SpecCalc: update_metrics from the point where the vault, performance and  *)
(* liquidity records are computed (main.rs 757-759): the risk calculators,   *)
(* the overlay and the publication, over a grid of vault summaries and       *)
(* liquidity records when no engine is attached, and with the engine task    *)
(* running when one is.                                                      *)

CalcTvls == {0, 100}
CalcEquities == {0, 20, 100, 150}
CalcDrawdowns == {R(-1, 2), Zero, R(3, 10), R(3, 2)}

\* the vault summaries a fetch can return
CalcVaults ==
    { [ tvl |-> t, equity |-> q, apr |-> R(576, 100), max_drawdown |-> d,
        deployed_liquidity |-> 60, idle_liquidity |-> 40 ] :
      t \in CalcTvls, q \in CalcEquities, d \in CalcDrawdowns }

CalcFleeting == {Zero, FromInt(3)}
CalcLayering == {FromInt(-2), R(35, 100), FromInt(2)}
CalcSpoofing == {R(9, 100), FromInt(5)}
CalcRealization == {FromInt(-1), R(512, 1000), FromInt(2)}

\* liquidity records with ratios inside and outside [0,1]
CalcLiquidity ==
    { [ calculate_liquidity_metrics(EmptyMap, <<>>, TheMeta) EXCEPT
          !.fleeting_order_ratio = f, !.layering_detection_score = l,
          !.spoofing_detection_index = sp, !.liquidity_realization_rate = rr ] :
      f \in CalcFleeting, l \in CalcLayering, sp \in CalcSpoofing, rr \in CalcRealization }

\* update_metrics after line 759 for a fetched snap: the records computed so
\* far, the risk record and the time stamp still to come
before_risk_metrics(c, snap, lm) ==
    [ c EXCEPT
        !.pc = "risk", !.snap = snap,
        !.new_metrics =
            [ DefaultMetrics EXCEPT
                !.vault_metrics = calculate_vault_metrics(snap.vault_summary, snap.user_state),
                !.performance_metrics =
                    calculate_performance_metrics(snap.recent_fills, snap.vault_summary),
                !.liquidity_metrics = lm ] ]

InitCalc ==
    /\ config \in [ operating_mode : {"Live"}, test_mode : {FALSE}, streaming : BOOLEAN ]
    /\ engine = new_engine
    /\ now = 0
    /\ metrics = DefaultMetrics
    /\ alerts = <<>>
    /\ alert_seq = 0
    /\ \E vs \in (IF config.streaming THEN {VaultHealthy, VaultEmpty} ELSE CalcVaults),
          lm \in (IF config.streaming
                  THEN {calculate_liquidity_metrics(EmptyMap, <<>>, TheMeta)}
                  ELSE CalcLiquidity) :
          collector =
              before_risk_metrics([ InitCollector EXCEPT !.update_counter = 1 ],
                                  mk_snap(vs, 60, <<BuyHalf, SellHalf>>, EmptyMap), lm)
    /\ ui = InitUi
    /\ received = InitReceived
    /\ produced = DefaultMetrics
    /\ guards = NoGuards
    /\ engine_task = IdleEngineTask

\* update_metrics, lines 760-768: calculate_risk_metrics and the GlobalMetrics record
calculate_risk_step ==
    /\ collector.pc = "risk"
    /\ LET snap == collector.snap
           risk_metrics ==
               calculate_risk_metrics(snap.vault_summary, snap.recent_fills,
                                      collector.new_metrics.liquidity_metrics, snap.meta)
       IN  collector' =
             [ collector EXCEPT
                 !.pc = "overlay",
                 !.batch_vpin = risk_metrics.vpin_score,
                 !.new_metrics =
                     [ @ EXCEPT !.risk_metrics = risk_metrics,
                                !.last_update = Stamp("collector", collector.update_counter) ] ]
    /\ UNCHANGED <<guards, engine_task, config, engine, now, metrics, alerts, alert_seq, ui, received, produced>>

\* update_metrics, lines 770-827: the overlay when an engine is attached, then Ok
overlay_step ==
    /\ collector.pc = "overlay"
    /\ collector' =
         IF ~config.streaming THEN [ collector EXCEPT !.pc = "publish" ]
         ELSE IF overlay_panics(collector.snap.vault_summary)
         THEN [ collector EXCEPT !.pc = "panicked" ]
         ELSE [ collector EXCEPT
                  !.pc = "publish",
                  !.streaming_vpin = get_current_vpin(engine),
                  !.new_metrics = overlay(@, engine, collector.snap.vault_summary) ]
    /\ UNCHANGED <<guards, engine_task, config, engine, now, metrics, alerts, alert_seq, ui, received, produced>>

NextCalc ==
    \/ engine_trade(EngineFills, SpecLifetimes, MaxEngineSteps)
    \/ engine_l2_update(EngineBooks, MaxEngineSteps)
    \/ engine_order(EngineOrderIds, EngineTimeSteps, MaxEngineSteps)
    \/ calculate_risk_step
    \/ overlay_step
    \/ publish_metrics

SpecCalc == InitCalc /\ [][NextCalc]_vars

\* C15: the Phantom Liquidity Index lies in [0,1] under both formulas: the one
\* the batch calculator computes, whatever the liquidity record it is given, and
\* the one the overlay computes from the engine's views, whatever events the
\* engine has taken; so does the one that is published.
C15_PhantomLiquidityIndexInUnitInterval ==
    /\ collector.pc \in {"overlay", "publish", "evaluate"}
          => InUnit(collector.new_metrics.risk_metrics.phantom_liquidity_index)
    /\ InUnit(metrics.risk_metrics.phantom_liquidity_index)
    /\ InUnit(produced.risk_metrics.phantom_liquidity_index)

\* an engine that tallied one fleeting cancelled order and no book: the overlay
\* computed (1 + 0 + 0 + 1) / 4, and the cycle published it
C15_OverlayIndexPublished ==
    /\ config.streaming
    /\ collector.pc = "evaluate"
    /\ engine.order_flow_analyzer.fleeting_orders = 1
    /\ engine.order_flow_analyzer.cancellation_events = 1
    /\ engine.order_flow_analyzer.total_orders = 1
    /\ engine.l2_snapshots = EmptyMap
    /\ metrics.risk_metrics.phantom_liquidity_index = R(1, 2)

\* (1 - equity/tvl) + 0.5 * clamp(max_drawdown, 0, 1), clamped to [0,1]
adjusted_risk(vs) ==
    Clamp01(RAdd(RSub(One, R(vs.equity, vs.tvl)), RMul(R(1, 2), Clamp01(vs.max_drawdown))))

\* C16: the liquidation risk a cycle computes is exactly 1 when tvl = 0,
\* whatever the equity and the max drawdown, and for tvl # 0 it is
\* (1 - equity/tvl) + 0.5 * clamp(max_drawdown, 0, 1) clamped to [0,1].
C16_LiquidationRisk ==
    collector.pc \in {"overlay", "publish", "evaluate"}
       => LET vs == collector.snap.vault_summary
              risk == collector.new_metrics.risk_metrics.liquidation_risk_score
          IN  IF vs.tvl = 0 THEN risk = One ELSE risk = adjusted_risk(vs)

\* a vault with tvl = 0, equity 150 and a drawdown of 3/2 was scored 1
C16_ZeroTvlScored ==
    /\ collector.pc = "overlay"
    /\ collector.snap.vault_summary.tvl = 0
    /\ collector.snap.vault_summary.equity = 150
    /\ collector.snap.vault_summary.max_drawdown = R(3, 2)
    /\ collector.new_metrics.risk_metrics.liquidation_risk_score = One

---------------------------------------------------------------------------
(* Claims on the record a cycle builds and publishes: volume and vault fields *)

\* sum of px * |sz| over the fetched fills
batch_volume(fills) == ISum([i \in 1..Len(fills) |-> notional(fills[i])])

\* C21: when the overlay is active, the performance total_volume a cycle builds
\* is the batch volume (sum of price * |size| over the fetched fills) plus the
\* engine's cumulative streamed volume at the moment the cycle reads it; without
\* an engine it is the batch volume alone; and the cycle publishes that value,
\* test mode or not.
C21_TotalVolumeAdded ==
    [][ /\ (collector.pc = "tick" /\ collector'.pc = "publish")
           => collector'.new_metrics.performance_metrics.total_volume =
                 batch_volume(collector'.snap.recent_fills)
                 + (IF config.streaming THEN engine.total_volume_traded ELSE 0)
        /\ (collector.pc = "publish" /\ collector'.pc = "evaluate")
           => metrics'.performance_metrics.total_volume =
                 collector.new_metrics.performance_metrics.total_volume
      ]_vars

\* the engine had streamed one fill of 10,000 when a cycle that fetched fills
\* worth 10,000 read it: 20,000 was published
C21_BatchPlusStreamedPublished ==
    /\ config.streaming
    /\ collector.pc = "evaluate"
    /\ batch_volume(collector.snap.recent_fills) = 10000
    /\ engine.total_volume_traded = 10000
    /\ metrics.performance_metrics.total_volume = 20000

\* the record the same cycle builds from the same fetched snapshot when an
\* engine in state e is attached (attached = TRUE) or none is
cycle_record(c, attached, e) == after_update_metrics(c, c.snap, attached, e)

\* the vault fields of two cycles that both reached Ok are the same
same_vault_fields(c1, c2) ==
    (c1.pc = "publish" /\ c2.pc = "publish")
       => c1.new_metrics.vault_metrics = c2.new_metrics.vault_metrics

\* C22 as stated: the vault fields (tvl, equity, apr, deployed_liquidity,
\* idle_liquidity, utilization_rate) a cycle builds are determined by the
\* fetched snapshot alone: from the same snapshot the cycle builds the same
\* vault fields with no engine attached, with a fresh engine attached and with
\* the engine as it is; and utilization_rate = 1 - idle_liquidity/tvl.
C22_VaultFieldsFromSnapshotAlone ==
    [][ (collector.pc = "tick" /\ collector'.pc = "publish")
        => /\ same_vault_fields(collector', cycle_record(collector', FALSE, engine))
           /\ same_vault_fields(collector', cycle_record(collector', TRUE, engine))
           /\ same_vault_fields(collector', cycle_record(collector', TRUE, new_engine))
           /\ LET vm == collector'.new_metrics.vault_metrics
              IN  vm.tvl # 0 => vm.utilization_rate = RSub(One, R(vm.idle_liquidity, vm.tvl))
      ]_vars


---------------------------------------------------------------------------
(* SpecLock: the engine task, the publisher and the UI at the grain of      *)
(* their guard acquisitions: every read().await / write().await is a        *)
(* request and a grant, every handler of the engine runs statement group by *)
(* statement group under its write guard, and the publisher reads the five  *)
(* views one after the other under its read guard.                          *)

MaxLockMessages == 2
MaxLockCycles == 1
MaxLockUiLoops == 1

\* lock.read().await / lock.write().await: the caller joins the queue
request(lock, task, mode) == [ lock EXCEPT !.queue = Append(@, <<task, mode>>) ]

\* a read guard handed out beside a write guard
read_grantable_beside_writer(lock) == TRUE

\* a read guard is handed out while no write guard is out
read_grantable(lock) == lock.writer = "none"

\* a write guard is handed out while no guard is out
write_grantable(lock) == lock.writer = "none" /\ lock.readers = {}

\* tokio's RwLock is fair: the guard goes to the waiter at the head of the queue
granted_to(lock, task) ==
    /\ lock.queue # <<>>
    /\ Head(lock.queue)[1] = task
    /\ IF Head(lock.queue)[2] = "w" THEN write_grantable(lock) ELSE read_grantable(lock)

grant(lock) ==
    IF Head(lock.queue)[2] = "w"
    THEN [ lock EXCEPT !.writer = Head(lock.queue)[1], !.queue = Tail(@) ]
    ELSE [ lock EXCEPT !.readers = @ \cup {Head(lock.queue)[1]}, !.queue = Tail(@) ]

\* drop(guard)
release(lock, task) ==
    [ lock EXCEPT !.readers = @ \ {task},
                  !.writer = IF @ = task THEN "none" ELSE @ ]

\* the guards a task holds, the guards it awaits
held_by(task) ==
    {l \in DOMAIN guards : task \in guards[l].readers \/ guards[l].writer = task}
awaited_by(task) ==
    {l \in DOMAIN guards : \E i \in DOMAIN guards[l].queue : guards[l].queue[i][1] = task}

trade_message(fill, order_lifetime) ==
    [ NoMessage EXCEPT !.kind = "trade", !.fill = fill, !.order_lifetime = order_lifetime ]
l2_message(snapshot) == [ NoMessage EXCEPT !.kind = "l2", !.snapshot = snapshot ]
order_message(action, id) == [ NoMessage EXCEPT !.kind = "order", !.action = action, !.id = id ]

LockMessages ==
    {trade_message(BuyFull, 50), l2_message(BookThin), l2_message(BookDeep)}
      \cup {order_message(a, 1) : a \in OrderActions}
LockSnaps == { mk_snap(VaultStressed, 95, <<BuyHalf, SellHalf>>, [BTC |-> BookThin]) }
LockOutcomes == {"ok", "meta"}

\* the statement groups of a handler, run one after the other under the guard
handler_steps(msg) ==
    CASE msg.kind = "trade" -> 4
      [] msg.kind = "l2" -> 2
      [] msg.kind = "order" -> 1

\* the k-th statement group of the handler of msg, run at instant t
handler_step(e, msg, k, t) ==
    CASE msg.kind = "trade" /\ k = 1 ->
           [ e EXCEPT
               !.total_volume_traded = @ + notional(msg.fill),
               !.volume_by_coin =
                   Insert(@, msg.fill.coin, GetOr0(@, msg.fill.coin) + notional(msg.fill)) ]
      [] msg.kind = "trade" /\ k = 2 -> update_vpin_calculation(e, msg.fill)
      [] msg.kind = "trade" /\ k = 3 -> analyze_order_flow(e, msg.fill, msg.order_lifetime)
      [] msg.kind = "trade" /\ k = 4 ->
           LET buf == Append(e.trade_buffer, msg.fill)
           IN  [ e EXCEPT !.trade_buffer = IF Len(buf) > 5000 THEN Tail(buf) ELSE buf ]
      [] msg.kind = "l2" /\ k = 1 ->
           IF msg.snapshot.coin \in DOMAIN e.l2_snapshots
           THEN detect_phantom_liquidity(e, e.l2_snapshots[msg.snapshot.coin], msg.snapshot)
           ELSE e
      [] msg.kind = "l2" /\ k = 2 ->
           [ e EXCEPT !.l2_snapshots = Insert(@, msg.snapshot.coin, msg.snapshot) ]
      [] msg.kind = "order" /\ msg.action = "New" -> on_new_order(e, msg.id, t)
      [] msg.kind = "order" /\ msg.action = "Cancelled" -> on_cancel_or_fill(e, msg.id, TRUE, t)
      [] msg.kind = "order" /\ msg.action = "Filled" -> on_cancel_or_fill(e, msg.id, FALSE, t)

\* the whole handler of msg
handle(e, msg, t) ==
    CASE msg.kind = "trade" -> process_trade(e, msg.fill, msg.order_lifetime)
      [] msg.kind = "l2" -> process_l2_update(e, msg.snapshot)
      [] msg.kind = "order" -> handler_step(e, msg, 1, t)

\* StreamingMetricsEngine::run: select! yields one message of one receiver, and
\* the arm asks for the write guard
lock_engine_recv(msgs, max) ==
    /\ config.streaming
    /\ engine_task.pc = "select"
    /\ received.trades + received.l2 + received.orders < max
    /\ \E msg \in msgs :
          /\ engine_task' = [ engine_task EXCEPT !.pc = "write_wait", !.msg = msg ]
          /\ received' =
               CASE msg.kind = "trade" -> [ received EXCEPT !.trades = @ + 1 ]
                 [] msg.kind = "l2" -> [ received EXCEPT !.l2 = @ + 1 ]
                 [] msg.kind = "order" ->
                      [ received EXCEPT !.orders = @ + 1,
                                        !.last_order = [ action |-> msg.action, id |-> msg.id ] ]
    /\ guards' = [ guards EXCEPT !.engine = request(@, "engine_task", "w") ]
    /\ UNCHANGED <<config, engine, now, metrics, alerts, alert_seq, collector, ui, produced>>

\* engine.write().await returns the guard
lock_engine_write_granted ==
    /\ engine_task.pc = "write_wait"
    /\ granted_to(guards.engine, "engine_task")
    /\ guards' = [ guards EXCEPT !.engine = grant(@) ]
    /\ engine_task' = [ engine_task EXCEPT !.pc = "handler", !.step = 0 ]
    /\ UNCHANGED <<config, engine, now, metrics, alerts, alert_seq, collector, ui, received,
                   produced>>

\* the next statement group of the handler, through the guard
lock_engine_handler_step ==
    /\ engine_task.pc = "handler"
    /\ engine_task.step < handler_steps(engine_task.msg)
    /\ \E dt \in SpecTimeSteps :
          now' = IF engine_task.msg.kind = "order" THEN now + dt ELSE now
    /\ engine' = handler_step(engine, engine_task.msg, engine_task.step + 1, now')
    /\ engine_task' = [ engine_task EXCEPT !.step = @ + 1 ]
    /\ UNCHANGED <<config, metrics, alerts, alert_seq, collector, ui, received, produced, guards>>

\* the end of the arm drops the guard, and the loop starts over
lock_engine_release ==
    /\ engine_task.pc = "handler"
    /\ engine_task.step = handler_steps(engine_task.msg)
    /\ guards' = [ guards EXCEPT !.engine = release(@, "engine_task") ]
    /\ engine_task' = [ pc |-> "select", msg |-> NoMessage, step |-> 0,
                        iterations |-> engine_task.iterations + 1, committed |-> engine ]
    /\ UNCHANGED <<config, engine, now, metrics, alerts, alert_seq, collector, ui, received,
                   produced>>

\* the publisher with the locals of update_metrics: the views read so far
LockCollector ==
    InitCollector @@ [ views |-> engine_views(new_engine), views_read |-> 0 ]

\* the cycles run since the start, the publisher starting at cycle 0 or 9
cycles_run(update_counter) == update_counter % 9

\* tick, update_counter += 1, the five fetches and the four calculators of
\* update_metrics; with an engine attached, engine.read().await is asked for
lock_fetch(snaps, max) ==
    /\ collector.pc = "tick"
    /\ cycles_run(collector.update_counter) < max
    /\ \E outcome \in LockOutcomes, snap \in snaps :
          LET c == [ LockCollector EXCEPT
                       !.update_counter = collector.update_counter + 1,
                       !.failed_fetch = outcome ]
              gm == batch_metrics(snap, Stamp("collector", c.update_counter))
              fetched == [ c EXCEPT !.snap = snap, !.new_metrics = gm,
                                    !.batch_vpin = gm.risk_metrics.vpin_score ]
          IN  /\ collector' =
                   IF outcome # "ok" THEN [ c EXCEPT !.pc = "failed" ]
                   ELSE IF config.streaming THEN [ fetched EXCEPT !.pc = "engine_wait" ]
                   ELSE [ fetched EXCEPT !.pc = "ok" ]
              /\ guards' =
                   IF outcome = "ok" /\ config.streaming
                   THEN [ guards EXCEPT !.engine = request(@, "publisher", "r") ]
                   ELSE guards
    /\ UNCHANGED <<config, engine, now, metrics, alerts, alert_seq, ui, received, produced,
                   engine_task>>

\* where the publisher awaits a guard: of which lock, and where it goes on
PublisherWaits ==
    [ engine_wait |-> <<"engine", "views">>,
      publish_wait |-> <<"metrics", "publish_held">>,
      clone_wait |-> <<"metrics", "clone_held">>,
      append_wait |-> <<"alerts", "append_held">>,
      log_wait |-> <<"metrics", "log_held">>,
      fallback_wait |-> <<"metrics", "fallback_held">> ]

\* a read().await or write().await of the publisher returns its guard
lock_publisher_granted ==
    /\ collector.pc \in DOMAIN PublisherWaits
    /\ LET l == PublisherWaits[collector.pc][1]
       IN  /\ granted_to(guards[l], "publisher")
           /\ guards' = [ guards EXCEPT ![l] = grant(@) ]
    /\ collector' = [ collector EXCEPT !.pc = PublisherWaits[collector.pc][2] ]
    /\ UNCHANGED <<config, engine, now, metrics, alerts, alert_seq, ui, received, produced,
                   engine_task>>

\* the k-th of the five reads through engine_guard (main.rs lines 774-778)
read_view(views, e, k) ==
    CASE k = 1 -> [ views EXCEPT !.streaming_vpin = engine_views(e).streaming_vpin ]
      [] k = 2 -> [ views EXCEPT !.phantom_metrics = engine_views(e).phantom_metrics ]
      [] k = 3 -> [ views EXCEPT !.real_time_spreads = engine_views(e).real_time_spreads ]
      [] k = 4 -> [ views EXCEPT !.streaming_volume = engine_views(e).streaming_volume ]
      [] k = 5 -> [ views EXCEPT !.liquidity_realization_rate =
                                     engine_views(e).liquidity_realization_rate ]

\* an update_metrics that takes a fresh read guard for every view
\* (engine.read().await.get_...()): the guard is dropped after each read
lock_read_view_guard_per_view ==
    /\ collector.pc = "views"
    /\ collector.views_read < 5
    /\ collector' = [ collector EXCEPT
                        !.views = read_view(@, engine, collector.views_read + 1),
                        !.views_read = @ + 1,
                        !.pc = "engine_wait" ]
    /\ guards' = [ guards EXCEPT !.engine = request(release(@, "publisher"), "publisher", "r") ]
    /\ UNCHANGED <<config, engine, now, metrics, alerts, alert_seq, ui, received, produced,
                   engine_task>>

\* one of the five reads through engine_guard
lock_read_view ==
    /\ collector.pc = "views"
    /\ collector.views_read < 5
    /\ collector' = [ collector EXCEPT
                        !.views = read_view(@, engine, collector.views_read + 1),
                        !.views_read = @ + 1 ]
    /\ UNCHANGED <<config, engine, now, metrics, alerts, alert_seq, ui, received, produced,
                   guards, engine_task>>

\* an update_metrics that keeps engine_guard to the end of the block
drop_engine_guard_at_block_end(g) == g

\* drop(engine_guard) (main.rs line 780)
drop_engine_guard(g) == [ g EXCEPT !.engine = release(@, "publisher") ]

lock_drop_engine_guard ==
    /\ collector.pc = "views"
    /\ collector.views_read = 5
    /\ guards' = drop_engine_guard(guards)
    /\ collector' = [ collector EXCEPT !.pc = "integrate" ]
    /\ UNCHANGED <<config, engine, now, metrics, alerts, alert_seq, ui, received, produced,
                   engine_task>>

\* update_metrics, lines 785-818, on the values copied: the overlay, or its panic
lock_integrate ==
    /\ collector.pc = "integrate"
    /\ collector' =
         IF overlay_panics(collector.snap.vault_summary)
         THEN [ collector EXCEPT !.pc = "panicked" ]
         ELSE [ collector EXCEPT
                  !.pc = "ok",
                  !.streaming_vpin = collector.views.streaming_vpin,
                  !.new_metrics = overlay_views(@, collector.views, collector.snap.vault_summary) ]
    /\ UNCHANGED <<config, engine, now, metrics, alerts, alert_seq, ui, received, produced,
                   guards, engine_task>>

\* the next read().await / write().await of the publisher: Ok arm metrics.write()
\* (line 206), metrics.read() for the alerts (221), alerts.write() when there are
\* new alerts (225), metrics.read() every tenth cycle (233), and in the Err arm
\* metrics.write() in test mode (253); or the end of the iteration
lock_publisher_request ==
    /\ collector.pc \in {"ok", "stored", "evaluated", "log", "failed"}
    /\ LET ask(l, mode, pc) ==
               /\ guards' = [ guards EXCEPT ![l] = request(@, "publisher", mode) ]
               /\ collector' = [ collector EXCEPT !.pc = pc ]
           done(arm) ==
               /\ guards' = guards
               /\ collector' = [ LockCollector EXCEPT
                                   !.update_counter = collector.update_counter,
                                   !.last_arm = arm ]
       IN  CASE collector.pc = "ok" -> ask("metrics", "w", "publish_wait")
             [] collector.pc = "stored" -> ask("metrics", "r", "clone_wait")
             [] collector.pc = "evaluated" ->
                  IF collector.new_alerts # <<>> THEN ask("alerts", "w", "append_wait")
                  ELSE guards' = guards /\ collector' = [ collector EXCEPT !.pc = "log" ]
             [] collector.pc = "log" ->
                  IF collector.update_counter % 10 = 0 THEN ask("metrics", "r", "log_wait")
                  ELSE done("Ok")
             [] collector.pc = "failed" ->
                  IF config.test_mode THEN ask("metrics", "w", "fallback_wait")
                  ELSE done("Err")
    /\ UNCHANGED <<config, engine, now, metrics, alerts, alert_seq, ui, received, produced,
                   engine_task>>

\* *metrics_guard = new_metrics (+ test modifications), and the block ends
lock_publish ==
    /\ collector.pc = "publish_held"
    /\ metrics' = published_value(collector.new_metrics, config.test_mode, collector.update_counter)
    /\ produced' = metrics'
    /\ guards' = [ guards EXCEPT !.metrics = release(@, "publisher") ]
    /\ collector' = [ collector EXCEPT !.pc = "stored", !.published = metrics' ]
    /\ UNCHANGED <<config, engine, now, alerts, alert_seq, ui, received, engine_task>>

\* metrics.read().await.clone(): the guard is a temporary of the statement;
\* then alert::check_alerts on the clone
lock_clone ==
    /\ collector.pc = "clone_held"
    /\ guards' = [ guards EXCEPT !.metrics = release(@, "publisher") ]
    /\ collector' = [ collector EXCEPT !.pc = "evaluated",
                                       !.metrics_for_alerts = metrics,
                                       !.new_alerts = check_alerts(metrics, alert_seq) ]
    /\ alert_seq' = alert_seq + Len(collector'.new_alerts)
    /\ UNCHANGED <<config, engine, now, metrics, alerts, ui, received, produced, engine_task>>

\* alerts_guard.extend(new_alerts), the drain, and the end of the if block
lock_append ==
    /\ collector.pc = "append_held"
    /\ alerts' = extend_and_drain(alerts, collector.new_alerts, 1000, 500)
    /\ guards' = [ guards EXCEPT !.alerts = release(@, "publisher") ]
    /\ collector' = [ collector EXCEPT !.pc = "log" ]
    /\ UNCHANGED <<config, engine, now, metrics, alert_seq, ui, received, produced, engine_task>>

\* the guard of the tenth-cycle log line or of the Err arm's fallback is
\* dropped, and the iteration ends
lock_publisher_iteration_end ==
    /\ collector.pc \in {"log_held", "fallback_held"}
    /\ metrics' = IF collector.pc = "fallback_held"
                  THEN metrics_after_failure(metrics, TRUE, collector.update_counter)
                  ELSE metrics
    /\ produced' = IF collector.pc = "fallback_held" THEN metrics' ELSE produced
    /\ guards' = [ guards EXCEPT !.metrics = release(@, "publisher") ]
    /\ collector' = [ LockCollector EXCEPT
                        !.update_counter = collector.update_counter,
                        !.last_arm = IF collector.pc = "log_held" THEN "Ok" ELSE "Err" ]
    /\ UNCHANGED <<config, engine, now, alerts, alert_seq, ui, received, engine_task>>

\* run_ui_enhanced: the next read().await / write().await of the UI: metrics
\* (line 425), alerts (430), and metrics.write() on key 't' (495)
lock_ui_request(max) ==
    /\ \/ /\ ui.pc = "metrics"
          /\ ui.update_counter < max
          /\ guards' = [ guards EXCEPT !.metrics = request(@, "ui", "r") ]
          /\ ui' = [ ui EXCEPT !.pc = "metrics_wait", !.update_counter = @ + 1 ]
       \/ /\ ui.pc = "alerts"
          /\ guards' = [ guards EXCEPT !.alerts = request(@, "ui", "r") ]
          /\ ui' = [ ui EXCEPT !.pc = "alerts_wait" ]
       \/ /\ ui.pc = "poll"
          /\ guards' = [ guards EXCEPT !.metrics = request(@, "ui", "w") ]
          /\ ui' = [ ui EXCEPT !.pc = "key_wait" ]
    /\ UNCHANGED <<config, engine, now, metrics, alerts, alert_seq, collector, received,
                   produced, engine_task>>

UiWaits ==
    [ metrics_wait |-> <<"metrics", "metrics_held">>,
      alerts_wait |-> <<"alerts", "alerts_held">>,
      key_wait |-> <<"metrics", "key_held">> ]

lock_ui_granted ==
    /\ ui.pc \in DOMAIN UiWaits
    /\ LET l == UiWaits[ui.pc][1]
       IN  /\ granted_to(guards[l], "ui")
           /\ guards' = [ guards EXCEPT ![l] = grant(@) ]
    /\ ui' = [ ui EXCEPT !.pc = UiWaits[ui.pc][2] ]
    /\ UNCHANGED <<config, engine, now, metrics, alerts, alert_seq, collector, received,
                   produced, engine_task>>

\* guard.clone() of the metrics or of the alert log, and the block ends; or the
\* test modifications in place under the write guard of key 't'
lock_ui_release ==
    /\ ui.pc \in {"metrics_held", "alerts_held", "key_held"}
    /\ ui' = CASE ui.pc = "metrics_held" ->
                    [ ui EXCEPT !.pc = "alerts", !.metrics_snapshot = metrics ]
               [] ui.pc = "alerts_held" -> [ ui EXCEPT !.pc = "poll", !.alerts_snapshot = alerts ]
               [] ui.pc = "key_held" -> [ InitUi EXCEPT !.update_counter = ui.update_counter ]
    /\ metrics' = IF ui.pc = "key_held"
                  THEN apply_test_modifications(metrics, ui.update_counter,
                                                Stamp("ui", ui.update_counter))
                  ELSE metrics
    /\ guards' = [ guards EXCEPT ![IF ui.pc = "alerts_held" THEN "alerts" ELSE "metrics"] =
                                     release(@, "ui") ]
    /\ UNCHANGED <<config, engine, now, alerts, alert_seq, collector, received, produced,
                   engine_task>>

\* the poll times out: the iteration ends without a key
lock_ui_no_key ==
    /\ ui.pc = "poll"
    /\ ui' = [ InitUi EXCEPT !.update_counter = ui.update_counter ]
    /\ UNCHANGED <<config, engine, now, metrics, alerts, alert_seq, collector, received,
                   produced, guards, engine_task>>

InitLock ==
    /\ config \in [ operating_mode : {"Live"}, test_mode : BOOLEAN, streaming : BOOLEAN ]
    /\ engine = new_engine
    /\ now = 0
    /\ metrics = DefaultMetrics
    /\ alerts = <<>>
    /\ alert_seq = 0
    /\ collector \in { [ LockCollector EXCEPT !.update_counter = n ] : n \in {0, 9} }
    /\ ui = InitUi
    /\ received = InitReceived
    /\ produced = DefaultMetrics
    /\ guards = NoGuards
    /\ engine_task = IdleEngineTask

NextLock ==
    \/ lock_engine_recv(LockMessages, MaxLockMessages)
    \/ lock_engine_write_granted
    \/ lock_engine_handler_step
    \/ lock_engine_release
    \/ lock_fetch(LockSnaps, MaxLockCycles)
    \/ lock_publisher_granted
    \/ lock_read_view
    \/ lock_drop_engine_guard
    \/ lock_integrate
    \/ lock_publisher_request
    \/ lock_publish
    \/ lock_clone
    \/ lock_append
    \/ lock_publisher_iteration_end
    \/ lock_ui_request(MaxLockUiLoops)
    \/ lock_ui_granted
    \/ lock_ui_release
    \/ lock_ui_no_key

SpecLock == InitLock /\ [][NextLock]_vars


\* C23: the engine task handles exactly one message per loop iteration and
\* changes the engine only while it holds the engine's write guard with no
\* read guard out; each completed handler leaves the engine as the whole
\* handler of its one message leaves the state the previous handler left, so
\* handlers never interleave; and while the publisher holds its read guard the
\* engine is as the last completed handler left it, so the five views it reads
\* are the views of that one state, never of a state in the middle of a handler.
C23_HandlersSerialized ==
    /\ [] /\ received.trades + received.l2 + received.orders
               = engine_task.iterations + (IF engine_task.pc = "select" THEN 0 ELSE 1)
          /\ "publisher" \in guards.engine.readers
                => /\ engine = engine_task.committed
                   /\ \A k \in 1..collector.views_read :
                         collector.views =
                             read_view(collector.views, engine_task.committed, k)
    /\ [][ /\ engine' # engine
               => /\ guards.engine.writer = "engine_task" /\ guards.engine.readers = {}
                  /\ guards'.engine.writer = "engine_task" /\ guards'.engine.readers = {}
           /\ engine_task'.iterations # engine_task.iterations
               => /\ engine_task'.iterations = engine_task.iterations + 1
                  /\ engine_task'.committed =
                        handle(engine_task.committed, engine_task.msg, now)
                  /\ engine' = engine_task'.committed
         ]_vars

\* the handler of a trade has added the fill's volume and not yet touched the
\* buckets, while the publisher awaits its read guard
C23_ReaderWaitsForHandler ==
    /\ engine_task.pc = "handler"
    /\ engine_task.msg.kind = "trade"
    /\ engine_task.step = 1
    /\ engine.total_volume_traded = 10000
    /\ engine.vpin_buckets = <<>>
    /\ collector.pc = "engine_wait"
    /\ guards.engine.queue = << <<"publisher", "r">> >>

\* the first waiter of lock l can be given its guard, or a guard of l is held
\* by a task that awaits no guard
can_proceed(l) ==
    \/ granted_to(guards[l], Head(guards[l].queue)[1])
    \/ \E task \in {"engine_task", "publisher", "ui"} :
          l \in held_by(task) /\ awaited_by(task) = {}

\* C24: lock discipline of the publisher.  The publisher never holds two
\* guards at once and never awaits a guard while it holds one: the read guard
\* of the engine is dropped before the overlay is computed and before the write
\* guard of the metrics is asked for, and the guard of the metrics is dropped
\* before the guard of the alert log is asked for.  No interleaving with the
\* engine task and the UI deadlocks: while a lock has a waiter, either the
\* first waiter can be given its guard or a guard of that lock is held by a task
\* that awaits nothing, whose next step is its own.
C24_PublisherLockDiscipline ==
    /\ Cardinality(held_by("publisher")) + Cardinality(awaited_by("publisher")) <= 1
    /\ collector.pc \in {"integrate", "ok", "stored", "evaluated", "log", "failed", "tick"}
          => held_by("publisher") = {}
    /\ "metrics" \in awaited_by("publisher") => "engine" \notin held_by("publisher")
    /\ "alerts" \in awaited_by("publisher") => "metrics" \notin held_by("publisher")
    /\ \A l \in DOMAIN guards : guards[l].queue # <<>> => can_proceed(l)

\* the publisher awaits the write guard of the metrics, holding nothing, while
\* the UI holds a read guard of the metrics and the engine task the write guard
\* of the engine
C24_PublisherAwaitsMetrics ==
    /\ collector.pc = "publish_wait"
    /\ held_by("publisher") = {}
    /\ guards.metrics.readers = {"ui"}
    /\ guards.metrics.queue = << <<"publisher", "w">> >>
    /\ guards.engine.writer = "engine_task"


---------------------------------------------------------------------------
(* SpecRefine: the loop of the batch VPIN calculator and a fresh engine, run *)
(* side by side on the same fills in the same order: each step is one         *)
(* iteration of the loop of calculate_vpin and one process_trade.            *)

RefineFills == {BuyHalf, SellHalf, SellBig, MinorSell}

\* the locals of calculate_vpin before its loop: no bucket, three zero volumes
NoReplay == << <<>>, 0, 0, 0 >>

InitRefine ==
    /\ config = [ operating_mode |-> "Live", test_mode |-> FALSE, streaming |-> TRUE ]
    /\ engine = new_engine
    /\ now = 0
    /\ metrics = DefaultMetrics
    /\ alerts = <<>>
    /\ alert_seq = 0
    /\ collector = InitCollector @@ [ replay |-> NoReplay ]
    /\ ui = InitUi
    /\ received = InitReceived
    /\ produced = DefaultMetrics
    /\ guards = NoGuards
    /\ engine_task = IdleEngineTask

\* the engine takes a fill, and the loop of calculate_vpin runs over the same fill
refine_fill(fills, lifetimes, max) ==
    /\ received.trades < max
    /\ \E fill \in fills, order_lifetime \in lifetimes :
          /\ engine' = process_trade(engine, fill, order_lifetime)
          /\ collector' =
                [ collector EXCEPT
                    !.snap.recent_fills = Append(@, fill),
                    !.replay = vpin_replay_fill(fill, assets_with_leverage(TheMeta, 10), @) ]
    /\ received' = [ received EXCEPT !.trades = @ + 1 ]
    /\ UNCHANGED <<config, now, metrics, alerts, alert_seq, ui, produced, guards, engine_task>>

\* the fills of the fixed history first, then any fills
refine_fill_of_history ==
    refine_fill({ring_fill(received.trades + 1)}, RingLifetimes, RingHistory)

refine_fill_after_history ==
    /\ received.trades >= RingHistory
    /\ refine_fill(RefineFills, SpecLifetimes, RingHistory + RingSteps)

NextRefine ==
    \/ refine_fill_of_history
    \/ refine_fill_after_history

SpecRefine == InitRefine /\ [][NextRefine]_vars

\* every fill is of an asset with leverage ceiling >= 10
all_major(fills, meta) ==
    \A i \in DOMAIN fills : fills[i].coin \in assets_with_leverage(meta, 10)

\* the prefixes short enough to be replayed whole at every state
ReplayedWhole == 12

\* C25: the batch VPIN calculator and the engine run the same bucket algorithm:
\* whenever every fill given to both, in the same order, is of an asset with
\* leverage ceiling >= 10, the batch calculator returns the live VPIN of the
\* engine (the mean of the last 50 completed buckets, 0 if none completed), and
\* its open bucket is the engine's accumulator.
C25_BatchVpinEqualsLiveVpin ==
    /\ collector.snap.recent_fills = engine.trade_buffer
    /\ Len(collector.snap.recent_fills) <= ReplayedWhole
          => /\ collector.replay =
                  vpin_replay(collector.snap.recent_fills,
                              assets_with_leverage(TheMeta, 10), NoReplay)
             /\ all_major(collector.snap.recent_fills, TheMeta)
                  => calculate_vpin(collector.snap.recent_fills, TheMeta)
                        = get_current_vpin(engine)
    /\ all_major(collector.snap.recent_fills, TheMeta)
          => /\ (IF collector.snap.recent_fills = <<>> THEN Zero
                  ELSE vpin_of_buckets(collector.replay[1])) = get_current_vpin(engine)
             /\ collector.replay[2] = engine.bucket_accumulator.current_volume
             /\ collector.replay[3] = engine.bucket_accumulator.buy_volume
             /\ collector.replay[4] = engine.bucket_accumulator.sell_volume

\* both have completed more than 51 buckets on fills of major assets: the
\* engine's ring holds 50 of them, of different values, and the two means agree
C25_MoreThanFiftyBuckets ==
    /\ all_major(collector.snap.recent_fills, TheMeta)
    /\ Len(collector.replay[1]) > 51
    /\ Len(engine.vpin_buckets) = 50
    /\ engine.vpin_buckets[1] # engine.vpin_buckets[2]
    /\ vpin_of_buckets(collector.replay[1]) = get_current_vpin(engine)


---------------------------------------------------------------------------
(* SpecBook: the engine taking book updates of one coin, between trades that *)
(* raise its order tally                                                     *)

MaxBookSteps == 5

\* BookThin has depth 20 and BookDeep 65, with six orders at 99 and four bid
\* levels more than BookThin; BookSteady has depth 21, 5% above BookThin;
\* BookBare has no level at all
BookSteady ==
    [ coin |-> "BTC", bids |-> << mk_level(99, 10, 1) >>, asks |-> << mk_level(101, 11, 1) >> ]
BookBare == [ coin |-> "BTC", bids |-> <<>>, asks |-> <<>> ]

\* two bid levels of three orders each: six orders, no more than three at a price
BookPairs ==
    [ coin |-> "BTC",
      bids |-> << mk_level(99, 10, 3), mk_level(98, 10, 3) >>,
      asks |-> << mk_level(101, 10, 1) >> ]

BookBooks == {BookThin, BookSteady, BookDeep, BookBare, BookPairs}
BookFills == {BuyHalf}

NextBook ==
    \/ engine_trade(BookFills, SpecLifetimes, MaxBookSteps)
    \/ engine_l2_update(BookBooks, MaxBookSteps)

\* an engine attached and fresh, as InitRing
SpecBook == InitRing /\ [][NextBook]_vars

\* this step is a book update for coin c, which had a stored snapshot
book_replaced(c) ==
    /\ received'.l2 = received.l2 + 1
    /\ c \in DOMAIN engine.l2_snapshots
    /\ \A d \in DOMAIN engine'.l2_snapshots \ {c} :
          d \in DOMAIN engine.l2_snapshots /\ engine'.l2_snapshots[d] = engine.l2_snapshots[d]

\* the top-5 depth of both sides moved by more than 5% of the previous depth
depth_moved(previous, current) ==
    LET prev_depth == calculate_total_depth(previous)
        curr_depth == calculate_total_depth(current)
    IN  prev_depth # 0 /\ 100 * Abs(curr_depth - prev_depth) > 5 * prev_depth

\* min(1, 1/totalOrders), 1/0 being +inf
damped_increment(total_orders) ==
    IF total_orders = 0 THEN One ELSE RMin(One, R(1, total_orders))

\* C27 as stated: a book update for a coin with a stored previous snapshot
\* adds min(1, 1/totalOrders) to the spoof counter if the top-5 depth of both
\* sides moved by more than 5% of the previous depth, and leaves the counter
\* unchanged otherwise; and the counter never decreases.
C27_SpoofCounterDamped ==
    [][ /\ \A c \in DOMAIN engine.l2_snapshots :
             book_replaced(c)
               => FromInt(engine'.phantom_liquidity_tracker.spoofing_events) =
                    IF depth_moved(engine.l2_snapshots[c], engine'.l2_snapshots[c])
                    THEN RAdd(FromInt(engine.phantom_liquidity_tracker.spoofing_events),
                              damped_increment(engine.order_flow_analyzer.total_orders))
                    ELSE FromInt(engine.phantom_liquidity_tracker.spoofing_events)
        /\ engine'.phantom_liquidity_tracker.spoofing_events
              >= engine.phantom_liquidity_tracker.spoofing_events
      ]_vars


\* the orders resting at price p, bids and asks together
orders_at(snapshot, p) ==
    LET levels == snapshot.bids \o snapshot.asks
    IN  ISum([i \in 1..Len(levels) |-> IF levels[i].px = p THEN levels[i].n ELSE 0])

\* more than 5 orders share one price of the book
crowded_price(snapshot) ==
    LET levels == snapshot.bids \o snapshot.asks
    IN  \E i \in DOMAIN levels : orders_at(snapshot, levels[i].px) > 5

\* 0.2 if either side's level count grew by more than 3, plus 0.3 if more than
\* 5 orders share an identical price in the new book
layering_frame(previous, current) ==
    RAdd(IF \/ Len(current.bids) > Len(previous.bids) + 3
            \/ Len(current.asks) > Len(previous.asks) + 3
         THEN R(2, 10) ELSE Zero,
         IF crowded_price(current) THEN R(3, 10) ELSE Zero)

\* C28 as stated: on each book update with a stored previous snapshot the
\* layering score becomes 0.8 * old + 0.2 * new, where new is 0.2 if either
\* side's level count grew by more than 3, plus 0.3 if more than 5 orders share
\* an identical price in the new book; and the layering score is always in [0,1].
C28_LayeringAverage ==
    /\ [] InUnit(engine.phantom_liquidity_tracker.layering_score)
    /\ [][ \A c \in DOMAIN engine.l2_snapshots :
             book_replaced(c)
               => engine'.phantom_liquidity_tracker.layering_score =
                    RAdd(RMul(R(8, 10), engine.phantom_liquidity_tracker.layering_score),
                         RMul(R(2, 10),
                              layering_frame(engine.l2_snapshots[c], engine'.l2_snapshots[c])))
         ]_vars


\* C29: the depth-realization ratio view is 0 while no depth has been promised
\* and realized/promised clamped to [0,1] otherwise; realized depth is always
\* exactly 80% of promised depth (so the view is 0 or 0.8); and a book update
\* that replaces a stored snapshot adds the top-5 depth of the new snapshot to
\* promised depth and 80% of it to realized depth, while no other step changes
\* either.
C29_DepthRealization ==
    /\ [] LET plt == engine.phantom_liquidity_tracker
              ratio == get_depth_realisation_ratio(engine)
          IN  /\ plt.realized_depth = RMul(R(8, 10), FromInt(plt.total_depth_promises))
              /\ plt.total_depth_promises = 0 => ratio = Zero
              /\ plt.total_depth_promises # 0
                   => /\ ratio = RMin(One, RMax(Zero, R(plt.realized_depth[1],
                                    plt.realized_depth[2] * plt.total_depth_promises)))
                      /\ ratio = R(8, 10)
    /\ [][ LET plt == engine.phantom_liquidity_tracker
               plt2 == engine'.phantom_liquidity_tracker
           IN  /\ \A c \in DOMAIN engine.l2_snapshots :
                     book_replaced(c)
                       => LET depth == calculate_total_depth(engine'.l2_snapshots[c])
                          IN  /\ plt2.total_depth_promises = plt.total_depth_promises + depth
                              /\ plt2.realized_depth =
                                     RAdd(plt.realized_depth, R(8 * depth, 10))
               /\ (\A c \in DOMAIN engine.l2_snapshots : ~book_replaced(c))
                     => /\ plt2.total_depth_promises = plt.total_depth_promises
                        /\ plt2.realized_depth = plt.realized_depth
         ]_vars

\* two snapshots have replaced stored ones (the deep book, depth 65, and the
\* thin one, depth 20) and the view reads 0.8
C29_TwoBooksPromised ==
    /\ engine.phantom_liquidity_tracker.total_depth_promises = 85
    /\ engine.phantom_liquidity_tracker.realized_depth = R(68, 1)
    /\ get_depth_realisation_ratio(engine) = R(4, 5)


---------------------------------------------------------------------------
(* SpecShare: one update cycle whose fetched fills are any short sequence of   *)
(* fills on two listed assets, on an asset the universe does not list, and of  *)
(* size zero, for the position concentration map of the record it builds       *)

MaxShareFills == 3

\* a fill on a spot pair, which the perpetuals universe does not list
SpotFill == mk_fill("PURR/USDC", 10, 500, "B", 0, 1)

\* a fill of size zero
EmptyFill == mk_fill("ETH", 100, 0, "A", 0, 0)

ShareFills == {BuyHalf, BuyFull, SpotFill, EmptyFill}

ShareSnaps ==
    { mk_snap(VaultHealthy, 50, fs, EmptyMap) : fs \in SeqsUpTo(ShareFills, MaxShareFills) }

InitShare ==
    /\ config \in [ operating_mode : {"Live"}, test_mode : {FALSE}, streaming : BOOLEAN ]
    /\ engine = new_engine
    /\ now = 0
    /\ metrics = DefaultMetrics
    /\ alerts = <<>>
    /\ alert_seq = 0
    /\ collector = InitCollector
    /\ ui = InitUi
    /\ received = InitReceived
    /\ produced = DefaultMetrics
    /\ guards = NoGuards
    /\ engine_task = IdleEngineTask

NextShare ==
    \/ update_metrics(ShareSnaps, 1)
    \/ publish_metrics

SpecShare == InitShare /\ [][NextShare]_vars

\* the fills on assets of the universe, in order
listed_fills(fills, meta) ==
    SelectSeq(fills, LAMBDA f : \E i \in DOMAIN meta.universe : meta.universe[i].name = f.coin)

\* conc maps each asset with fills among `fills` to the sum of price * |size|
\* of its fills divided by the sum over all of `fills`; each share is in [0,1];
\* the shares sum to 1 when that total is positive and the map is empty when
\* it is zero
shares_of(conc, fills) ==
    LET value(i) == fills[i].px * Abs(fills[i].sz)
        grand == ISum([i \in 1..Len(fills) |-> value(i)])
        asset_value(c) == ISum([i \in 1..Len(fills) |-> IF fills[i].coin = c THEN value(i) ELSE 0])
        assets == SeqOfSet(DOMAIN conc)
    IN  /\ grand > 0
          => /\ DOMAIN conc = {fills[i].coin : i \in DOMAIN fills}
             /\ \A c \in DOMAIN conc : conc[c] = R(asset_value(c), grand) /\ InUnit(conc[c])
             /\ RSum([i \in 1..Len(assets) |-> conc[assets[i]]]) = One
        /\ grand = 0 => DOMAIN conc = {}

\* C30 as stated: the position concentration of the record a cycle builds maps
\* each asset that has fills to its share of the total traded notional over all
\* fetched fills, every share in [0,1], the shares summing to 1 when the grand
\* total is positive, and the map empty when the grand total is zero.
C30_SharesOfAllFills ==
    collector.pc \in {"publish", "evaluate"}
      => shares_of(collector.new_metrics.risk_metrics.position_concentration,
                   collector.snap.recent_fills)

\* C30, amended: the position concentration of the record a cycle builds maps
\* each asset of the universe that has fills to its share of the notional
\* traded on assets of the universe; fills on other assets are left out of the
\* map and of the total. Every share is in [0,1], the shares sum to 1 when
\* that total is positive, and the map is empty when it is zero.
C30_SharesOfListedFills ==
    collector.pc \in {"publish", "evaluate"}
      => shares_of(collector.new_metrics.risk_metrics.position_concentration,
                   listed_fills(collector.snap.recent_fills, collector.snap.meta))

\* a cycle fetched fills on BTC (5000), on ETH (10000) and on the unlisted
\* pair, and built the map BTC 1/3, ETH 2/3
C30_UnlistedFillLeftOut ==
    /\ collector.pc = "publish"
    /\ \E i \in DOMAIN collector.snap.recent_fills : collector.snap.recent_fills[i] = SpotFill
    /\ collector.new_metrics.risk_metrics.position_concentration
         = [ c \in {"BTC", "ETH"} |-> IF c = "BTC" THEN R(1, 3) ELSE R(2, 3) ]


---------------------------------------------------------------------------
(* SpecCross: one update cycle over universes of 9, 10 and 11 assets of       *)
(* leverage ceiling >= 10, with and without fetched fills, for the            *)
(* cross-exchange manipulation score of the record it builds                  *)

MaxCrossFills == 2

CrossNames ==
    << "BTC", "ETH", "SOL", "AVAX", "ARB", "OP", "DOGE", "LINK", "MATIC", "ATOM", "SUI" >>

\* a universe of `majors` assets of leverage ceiling >= 10 (the first exactly
\* 10) and two of ceiling below 10
mk_universe(majors) ==
    [ universe |->
        [ i \in 1..majors |->
            [ name |-> CrossNames[i], max_leverage |-> IF i = 1 THEN 10 ELSE 20,
              only_isolated |-> FALSE ] ]
        \o << [ name |-> "JELLY", max_leverage |-> 3, only_isolated |-> TRUE ],
              [ name |-> "PURR", max_leverage |-> 9, only_isolated |-> FALSE ] >> ]

CrossUniverses == { mk_universe(9), mk_universe(10), mk_universe(11), TheMeta }

CrossFills == {BuyHalf, SellHalf, BuyFull}

CrossSnaps ==
    { [ mk_snap(VaultHealthy, 50, fs, EmptyMap) EXCEPT !.meta = m ] :
        fs \in SeqsUpTo(CrossFills, MaxCrossFills), m \in CrossUniverses }

NextCross ==
    \/ update_metrics(CrossSnaps, 1)
    \/ publish_metrics

SpecCross == InitShare /\ [][NextCross]_vars

\* the number of assets of the universe with leverage ceiling >= 10
major_assets_count(meta) ==
    Cardinality({i \in DOMAIN meta.universe : meta.universe[i].max_leverage >= 10})

\* C31 as stated: the cross-exchange manipulation score of the record a cycle
\* builds is 0.15 if more than 10 assets of the universe have leverage ceiling
\* >= 10 and 0.08 otherwise, for every fill set including the empty one.
C31_ScoreForEveryFillSet ==
    collector.pc \in {"publish", "evaluate"}
      => collector.new_metrics.risk_metrics.cross_exchange_manipulation_score
           = (IF major_assets_count(collector.snap.meta) > 10 THEN R(15, 100) ELSE R(8, 100))

\* C31, amended: the cross-exchange manipulation score of the record a cycle
\* builds is 0 when no fill was fetched; otherwise it is 0.15 if more than 10
\* assets of the universe have leverage ceiling >= 10 and 0.08 if 10 or fewer.
C31_ScoreZeroWithoutFills ==
    collector.pc \in {"publish", "evaluate"}
      => collector.new_metrics.risk_metrics.cross_exchange_manipulation_score
           = (IF collector.snap.recent_fills = <<>> THEN Zero
              ELSE IF major_assets_count(collector.snap.meta) > 10
                   THEN R(15, 100) ELSE R(8, 100))

\* a cycle with fills over a universe of 11 high-leverage assets built 0.15
C31_ElevenMajorsScored ==
    /\ collector.pc = "publish"
    /\ collector.snap.recent_fills # <<>>
    /\ major_assets_count(collector.snap.meta) = 11
    /\ collector.new_metrics.risk_metrics.cross_exchange_manipulation_score = R(15, 100)


---------------------------------------------------------------------------
(* SpecSelect: the engine loop with its three broadcast receivers.  A sender  *)
(* overwrites the oldest unread message of a full channel, and the receiver   *)
(* then gets Err(Lagged) once; a receiver of a closed, drained channel gets   *)
(* Err(Closed).  In tokio::select! a branch whose result does not match its   *)
(* pattern Ok(..) is disabled for the rest of that select!, and a select!     *)
(* with every branch disabled and no else branch panics.                      *)

SelectCapacity == 1
MaxSelectSends == 2

SelectChannels == {"trade", "l2", "order"}

\* the message the producer of a channel sends
select_message(ch) ==
    CASE ch = "trade" -> trade_message(BuyHalf, 50)
      [] ch = "l2" -> l2_message(BookThin)
      [] ch = "order" -> order_message("New", 1)

open_channel == [ buf |-> <<>>, lagged |-> FALSE, open |-> TRUE, sent |-> 0 ]

InitSelect ==
    /\ config = [ operating_mode |-> "Live", test_mode |-> FALSE, streaming |-> TRUE ]
    /\ engine = new_engine
    /\ now = 0
    /\ metrics = DefaultMetrics
    /\ alerts = <<>>
    /\ alert_seq = 0
    /\ collector = InitCollector
    /\ ui = InitUi
    /\ received = InitReceived @@ [ chan |-> [ch \in SelectChannels |-> open_channel] ]
    /\ produced = DefaultMetrics
    /\ guards = NoGuards
    /\ engine_task = IdleEngineTask @@ [ disabled |-> {} ]

\* broadcast::Sender::send on channel ch: a full channel drops its oldest
\* unread message and the receiver has lagged
select_send(ch) ==
    /\ received.chan[ch].open
    /\ received.chan[ch].sent < MaxSelectSends
    /\ LET c == received.chan[ch]
           full == Len(c.buf) >= SelectCapacity
       IN  received' =
             [ received EXCEPT !.chan[ch] =
                 [ c EXCEPT !.buf = Append(IF full THEN Tail(c.buf) ELSE c.buf, select_message(ch)),
                            !.lagged = c.lagged \/ full,
                            !.sent = c.sent + 1 ] ]
    /\ UNCHANGED <<guards, engine_task, config, engine, now, metrics, alerts, alert_seq,
                   collector, ui, produced>>

\* the last sender of channel ch is dropped
select_close(ch) ==
    /\ received.chan[ch].open
    /\ received' = [ received EXCEPT !.chan[ch].open = FALSE ]
    /\ UNCHANGED <<guards, engine_task, config, engine, now, metrics, alerts, alert_seq,
                   collector, ui, produced>>

\* the branch of ch completes with Ok(message): its handler runs under the write
\* guard and the loop starts a new select!
select_recv_ok(ch) ==
    /\ engine_task.pc = "select"
    /\ ch \notin engine_task.disabled
    /\ ~received.chan[ch].lagged
    /\ received.chan[ch].buf # <<>>
    /\ LET msg == Head(received.chan[ch].buf)
           r == [ received EXCEPT !.chan[ch].buf = Tail(@) ]
       IN  /\ engine' = handle(engine, msg, now)
           /\ received' =
                CASE ch = "trade" -> [ r EXCEPT !.trades = @ + 1 ]
                  [] ch = "l2" -> [ r EXCEPT !.l2 = @ + 1 ]
                  [] ch = "order" ->
                       [ r EXCEPT !.orders = @ + 1,
                                  !.last_order = [ action |-> msg.action, id |-> msg.id ] ]
    /\ engine_task' = [ engine_task EXCEPT !.disabled = {}, !.iterations = @ + 1,
                                            !.committed = engine' ]
    /\ UNCHANGED <<guards, config, now, metrics, alerts, alert_seq, collector, ui, produced>>

\* the branch of ch completes with Err(Lagged) or Err(Closed): the pattern
\* fails and the branch is disabled; with no branch left the select! panics
select_recv_err(ch) ==
    /\ engine_task.pc = "select"
    /\ ch \notin engine_task.disabled
    /\ \/ received.chan[ch].lagged
       \/ received.chan[ch].buf = <<>> /\ ~received.chan[ch].open
    /\ received' = [ received EXCEPT !.chan[ch].lagged = FALSE ]
    /\ LET disabled == engine_task.disabled \cup {ch}
       IN  engine_task' =
             [ engine_task EXCEPT !.disabled = disabled,
                                  !.pc = IF disabled = SelectChannels THEN "panicked" ELSE "select" ]
    /\ UNCHANGED <<guards, config, engine, now, metrics, alerts, alert_seq, collector, ui,
                   produced>>

select_engine_step ==
    \E ch \in SelectChannels : select_recv_ok(ch) \/ select_recv_err(ch)

NextSelect ==
    \/ \E ch \in SelectChannels : select_send(ch)
    \/ \E ch \in SelectChannels : select_close(ch)
    \/ \E ch \in SelectChannels : select_recv_ok(ch)
    \/ \E ch \in SelectChannels : select_recv_err(ch)

\* the runtime keeps polling the engine task while a branch can complete
SpecSelect == InitSelect /\ [][NextSelect]_vars /\ WF_vars(select_engine_step)

\* the messages the engine has taken from channel ch
taken_from(ch) ==
    CASE ch = "trade" -> received.trades
      [] ch = "l2" -> received.l2
      [] ch = "order" -> received.orders

\* C32: the engine loop never stops or crashes, whatever receives report lag
\* or an error on whatever channels, and a message waiting unread on a channel
\* is eventually taken and processed.
C32_EngineRunsIndefinitely ==
    /\ [](engine_task.pc # "panicked")
    /\ \A ch \in SelectChannels : \A n \in 0..(MaxSelectSends - 1) :
          (received.chan[ch].buf # <<>> /\ taken_from(ch) = n) ~> (taken_from(ch) > n)


---------------------------------------------------------------------------
(* Claims on the single-level alerts of one evaluation (SpecAlert) *)

\* the largest value of a concentration map, 0 for an empty map
largest_share(pc) ==
    IF DOMAIN pc = {} THEN Zero
    ELSE LET top == CHOOSE c \in DOMAIN pc : \A d \in DOMAIN pc : RLe(pc[d], pc[c])
         IN  IF RLt(pc[top], Zero) THEN Zero ELSE pc[top]

\* exactly one Warning alert for the metric iff v > t, none otherwise
one_level_claim(as, metric, v, t) ==
    LET hits == {i \in DOMAIN as : as[i].metric = metric}
    IN  /\ Cardinality(hits) = (IF RLt(t, v) THEN 1 ELSE 0)
        /\ \A i \in hits : as[i].level = "Warning" /\ as[i].threshold = t /\ as[i].value = v

\* C33: for each single-level metric one evaluation yields exactly one Warning
\* alert iff the value is strictly above its threshold and none otherwise:
\* utilization rate > 0.9, largest position concentration > 0.15 (0 for an
\* empty map), cancel rate > 0.5, fleeting order ratio > 0.2; and one
\* evaluation returns at most 9 alerts.
C33_SingleLevelAlerts ==
    collector.pc = "append" =>
        LET m == collector.metrics_for_alerts
            as == collector.new_alerts
        IN  /\ one_level_claim(as, "Utilization", m.vault_metrics.utilization_rate, R(9, 10))
            /\ one_level_claim(as, "Position Concentration",
                               largest_share(m.risk_metrics.position_concentration), R(15, 100))
            /\ one_level_claim(as, "Cancel Rate", m.liquidity_metrics.cancel_rate, R(5, 10))
            /\ one_level_claim(as, "Fleeting Orders",
                               m.liquidity_metrics.fleeting_order_ratio, R(2, 10))
            /\ Len(as) <= 9

\* one evaluation returned nine alerts, the four single-level Warnings among
\* them, the concentration one carrying the larger of two shares
C33_NineAlerts ==
    /\ collector.pc = "append"
    /\ Len(collector.new_alerts) = 9
    /\ \A metric \in {"Utilization", "Position Concentration", "Cancel Rate", "Fleeting Orders"} :
          \E i \in DOMAIN collector.new_alerts :
             collector.new_alerts[i].metric = metric /\ collector.new_alerts[i].level = "Warning"
    /\ \E i \in DOMAIN collector.new_alerts :
          /\ collector.new_alerts[i].metric = "Position Concentration"
          /\ collector.new_alerts[i].value = R(2, 10)


---------------------------------------------------------------------------
(* Claims on the order-flow tally of the engine (SpecEngine) *)

\* the window after a sample is pushed, oldest sample dropped beyond cap
window_after(window, sample, cap) ==
    LET pushed == Append(window, sample)
    IN  IF Len(pushed) > cap THEN Tail(pushed) ELSE pushed

\* C34: the order-lifetime sample window holds at most 10,000 samples, evicted
\* oldest-first, and every sample in it is the measured lifetime (close time -
\* New time) of an order closed by a Filled/Cancelled event: the window changes
\* only when such an event closes a known order, by that one sample.
C34_WindowOfMeasuredLifetimes ==
    /\ [](Len(engine.order_flow_analyzer.order_lifetimes) <= 10000)
    /\ [][ engine'.order_flow_analyzer.order_lifetimes # engine.order_flow_analyzer.order_lifetimes
             => /\ received'.orders = received.orders + 1
                /\ received'.last_order.action \in {"Filled", "Cancelled"}
                /\ received'.last_order.id \in DOMAIN engine.active_orders
                /\ engine'.order_flow_analyzer.order_lifetimes =
                      window_after(engine.order_flow_analyzer.order_lifetimes,
                                   now' - engine.active_orders[received'.last_order.id], 10000)
         ]_vars


\* C35: after any sequence of trade, book and order events, fleeting count <=
\* total orders and cancellation count <= total orders, so the fleeting ratio
\* and the cancellation rate of the view are in [0,1], and they are 0 while
\* total orders is 0.
C35_TalliesBoundedByTotal ==
    LET ofa == engine.order_flow_analyzer
        view == get_phantom_liquidity_metrics(engine)
    IN  /\ 0 <= ofa.fleeting_orders /\ ofa.fleeting_orders <= ofa.total_orders
        /\ 0 <= ofa.cancellation_events /\ ofa.cancellation_events <= ofa.total_orders
        /\ InUnit(view.fleeting_order_ratio)
        /\ InUnit(view.cancellation_rate)
        /\ ofa.total_orders = 0
             => view.fleeting_order_ratio = Zero /\ view.cancellation_rate = Zero
        /\ ofa.total_orders > 0
             => /\ view.fleeting_order_ratio[1] * ofa.total_orders
                     = ofa.fleeting_orders * view.fleeting_order_ratio[2]
                /\ view.cancellation_rate[1] * ofa.total_orders
                     = ofa.cancellation_events * view.cancellation_rate[2]

\* one trade (drawn lifetime 50 ms) and two order events (New, and Cancelled
\* 100 ms later) taken: two orders tallied, one fleeting and one cancelled, and
\* both views read 1/2
C35_HalfFleetingHalfCancelled ==
    /\ received.trades = 1
    /\ received.orders = 2
    /\ engine.order_flow_analyzer.total_orders = 2
    /\ get_phantom_liquidity_metrics(engine).fleeting_order_ratio = R(1, 2)
    /\ get_phantom_liquidity_metrics(engine).cancellation_rate = R(1, 2)


---------------------------------------------------------------------------
(* Claims on the tasks and their guards, continued (SpecLock) *)

\* C36: within one update cycle all engine view values used for the overlay
\* are read under a single hold of the engine's read guard and describe one
\* engine state: while the publisher reads them it holds the guard, no trade,
\* book or order event is applied, and once the five are read they are the
\* views of the engine as it stands.
C36_ViewsOfOneEngineState ==
    /\ [] ( collector.pc = "views"
              => /\ "publisher" \in guards.engine.readers
                 /\ engine_task.pc # "handler"
                 /\ collector.views_read = 5 => collector.views = engine_views(engine) )
    /\ [][ (collector.pc = "views" /\ collector'.pc = "views")
              => /\ engine' = engine
                 /\ engine_task'.iterations = engine_task.iterations
                 /\ "publisher" \in guards'.engine.readers
         ]_vars

\* the publisher has read the five views of an engine that has taken a trade,
\* while the engine task, a second message in hand, awaits its write guard
C36_ViewsReadWhileEngineWaits ==
    /\ collector.pc = "views"
    /\ collector.views_read = 5
    /\ collector.views.streaming_volume = 10000
    /\ engine_task.pc = "write_wait"
    /\ engine_task.iterations = 1


\* C37: the alerts appended to the alert log in an update cycle are exactly
\* the evaluator's output on the GlobalMetrics this same cycle published: no
\* other writer changes the published metrics between the cycle's publish and
\* the re-read used for the evaluation.
C37_AlertsOfThePublishedRecord ==
    /\ [] ( collector.pc \in {"stored", "clone_wait", "clone_held"}
              => metrics = collector.published )
    /\ [] ( collector.pc \in {"evaluated", "append_wait", "append_held"}
              => /\ collector.metrics_for_alerts = collector.published
                 /\ without_ids(collector.new_alerts) = alerts_of(collector.published) )
    /\ [][ (collector.pc = "append_held" /\ collector'.pc = "log")
              => \E n \in 0..alert_seq :
                    alerts' = extend_and_drain(alerts, check_alerts(collector.published, n),
                                               1000, 500)
         ]_vars


---------------------------------------------------------------------------
(* Claims on the alert log of the collection loop (Spec) *)

\* C38: a failed update cycle never changes the alert log, in test mode (where
\* it publishes synthetic metrics) as in live mode: the evaluator runs and
\* alerts are appended only in a cycle whose fetches succeeded and that has
\* published its record.
C38_FailedCycleKeepsAlertLog ==
    /\ [] ( collector.pc \in {"evaluate", "append"}
              => /\ collector.failed_fetch = "ok"
                 /\ collector.published.last_update
                       = Stamp("collector", collector.update_counter) )
    /\ [][ /\ (collector.pc = "failed" \/ collector'.pc = "failed")
              => alerts' = alerts /\ alert_seq' = alert_seq
           /\ alert_seq' # alert_seq => collector.pc = "evaluate"
           /\ alerts' # alerts => collector.pc = "append"
         ]_vars

\* the second cycle failed in test mode and stored the synthetic metrics; the
\* alert log still holds the alerts of the first cycle and no other, which are
\* not the alerts the synthetic metrics call for
C38_SyntheticPublishedLogKept ==
    /\ config.test_mode
    /\ collector.pc = "tick" /\ collector.last_arm = "Err" /\ collector.update_counter = 2
    /\ metrics.vault_metrics.tvl = 109530000
    /\ alerts # <<>>
    /\ Len(alerts) = alert_seq
    /\ without_ids(alerts) # alerts_of(metrics)


---------------------------------------------------------------------------
(* Claims on the spoof counter, continued (SpecBook) *)

\* C39: the spoof increment min(1, 1/totalOrders) is truncated to an integer,
\* so the spoof-event counter can only grow while total orders is 0 or 1: once
\* total orders is 2 or more no step changes the counter, however large the
\* depth change of a book update; and when it grows, it grows by 1 on a book
\* update whose depth moved by more than 5%.
C39_SpoofCounterFrozen ==
    [][ /\ engine.order_flow_analyzer.total_orders >= 2
            => engine'.phantom_liquidity_tracker.spoofing_events
                  = engine.phantom_liquidity_tracker.spoofing_events
        /\ engine'.phantom_liquidity_tracker.spoofing_events
              # engine.phantom_liquidity_tracker.spoofing_events
            => /\ engine.order_flow_analyzer.total_orders <= 1
               /\ engine'.phantom_liquidity_tracker.spoofing_events
                     = engine.phantom_liquidity_tracker.spoofing_events + 1
               /\ \E c \in DOMAIN engine.l2_snapshots :
                     /\ book_replaced(c)
                     /\ depth_moved(engine.l2_snapshots[c], engine'.l2_snapshots[c])
      ]_vars

\* two trades and three book updates, the last two of depth 65 and then 20
\* (the stored book is the thin one and 85 was promised): the counter is still
\* 0, so the last update, a move of -69%, came with two orders tallied and
\* was not counted
C39_LargeMoveNotCounted ==
    /\ received.l2 = 3 /\ received.trades = 2
    /\ engine.order_flow_analyzer.total_orders = 2
    /\ engine.l2_snapshots["BTC"] = BookThin
    /\ engine.phantom_liquidity_tracker.total_depth_promises = 85
    /\ engine.phantom_liquidity_tracker.spoofing_events = 0

(* the live alert log as its readers see it *)

\* the entries of a log in the order of their creation, oldest first
oldest_first(log) == \A i \in 1..(Len(log) - 1) : log[i].id < log[i + 1].id

\* C40: in the live data-collection loop every value of the alert log has at
\* most 1,000 entries, oldest first by creation; a cycle brings at most 9
\* alerts, so the log extended by them has at most 1,009 entries, and a log
\* that was compacted is left with 501 to 509 entries; the log changes only in
\* the append step, which extends and compacts it at once, so no reader sees
\* the extended log before its compaction
C40_LiveLogWithinCap ==
    /\ [](config.operating_mode = "Live" =>
            /\ Len(alerts) <= 1000
            /\ oldest_first(alerts)
            /\ collector.pc = "append" =>
                   /\ Len(collector.new_alerts) <= 9
                   /\ Len(alerts) + Len(collector.new_alerts) <= 1009
            /\ collector.drained # 0 =>
                   /\ collector.drained = 500
                   /\ Len(alerts) \in 501..509)
    /\ [][ (config.operating_mode = "Live" /\ alerts' # alerts) =>
              /\ collector.pc = "append" /\ collector'.pc = "tick"
              /\ \E k \in {0, 500} :
                    /\ k = 500 <=> Len(alerts) + Len(collector.new_alerts) > 1000
                    /\ alerts' = SubSeq(alerts \o collector.new_alerts, k + 1,
                                        Len(alerts) + Len(collector.new_alerts))
          ]_vars

\* the live log, extended to 1,001 entries, has been compacted to 501: the
\* entries created 501st to 1,001st, in this order
C40_CompactedToFiveHundredOne ==
    /\ config.operating_mode = "Live"
    /\ collector.drained = 500
    /\ Len(alerts) = 501
    /\ alerts[1].id = 501
    /\ alerts[501].id = 1001

====
